---- MODULE Spec2Model ----
(***************************************************************************)
(* Model of the OCR pipeline of PhiVanDat123/OCR: the provider dispatcher  *)
(* extract_text_from_image, the document structurer text_to_xml and the    *)
(* escaping utility escape_xml (src/ocr_module.py), the paraphrase         *)
(* dispatcher paraphrase_xml and mock_paraphrase (src/llm_module.py), and  *)
(* the endpoints process_ocr and paraphrase_only (src/backend.py).         *)
(*                                                                         *)
(* A Python str is modelled as the sequence of its Unicode code points,    *)
(* so "a:b" is <<97, 58, 98>>.  None and the empty string are both the     *)
(* empty sequence where the code only tests truthiness; the answer of a    *)
(* text-generation service, which is handed on untested, keeps None apart. *)
(***************************************************************************)
EXTENDS Integers, Sequences, FiniteSets, TLC

(***************************************************************************)
(* Bounds of the model.                                                    *)
(***************************************************************************)
\* number of raw lines of an input text of text_to_xml
MaxLines == 3
\* length of an input string of escape_xml
MaxEscLen == 3
\* most pieces of markup in a document given to POST /paraphrase
MaxPieces == 2
\* most line breaks in the message of an exception a library raises
MaxBreaks == 1

(***************************************************************************)
(* State.                                                                  *)
(***************************************************************************)
\* text_to_xml
VARIABLES
    text,             \* the argument of text_to_xml
    lines,            \* the stripped, non-blank lines of text
    idx,              \* position of the loop in lines
    xml_parts,        \* the output lines written so far
    current_section,  \* title of the open section, <<>> for None
    section_content,  \* buffered paragraphs of the open section
    xml_pc,           \* "idle", "start", "loop", "done"
    xml_result,       \* the returned string
    origin,           \* history: for each entry of xml_parts, the index in
                      \* lines of the line it was written for (0: none)
    cur_line,         \* history: index in lines of the open section's header
    content_lines     \* history: indices in lines of the buffered paragraphs

xml_vars ==
    <<text, lines, idx, xml_parts, current_section, section_content, xml_pc,
      xml_result, origin, cur_line, content_lines>>

\* escape_xml applied to two strings
VARIABLES
    esc_a, esc_b,     \* two inputs of escape_xml
    esc_ra, esc_rb,   \* the two results
    esc_pc            \* "idle", "start", "done"

esc_vars == <<esc_a, esc_b, esc_ra, esc_rb, esc_pc>>

\* extract_text_from_image
VARIABLES
    image,            \* what the uploaded bytes decode to: "RGB", "L" (any
                      \* other mode) or "invalid" (PIL cannot identify them)
    provider_arg,     \* the provider argument, "" for None
    mode_arg,         \* the mode argument, "" for None
    ocr_provider,     \* provider after defaulting to config.OCR_PROVIDER
    ocr_mode,         \* mode after defaulting to config.DEEPSEEK_OCR_MODE
    ocr_pc,           \* "idle", "start", "try", "except", "returned", "raised"
    ocr_text,         \* first component of the returned pair
    ocr_label,        \* second component of the returned pair
    ocr_error,        \* the exception raised during the call, "" for none
    ocr_calls,        \* history: the strategies and generators invoked
    ocr_log,          \* number of lines printed to stdout
    model_cache       \* "model" in _model_cache: the local model is loaded

ocr_vars ==
    <<image, provider_arg, mode_arg, ocr_provider, ocr_mode, ocr_pc, ocr_text,
      ocr_label, ocr_error, ocr_calls, ocr_log, model_cache>>

\* process_ocr, paraphrase_only and paraphrase_xml
VARIABLES
    endpoint,         \* the route being served: "/ocr" or "/paraphrase"
    api_keys,         \* the LLM providers whose API key config holds
    content_type,     \* file.content_type of the upload
    file_size,        \* len(image_data)
    use_mock_llm,     \* form field use_mock_llm; request.use_mock
    llm_provider_arg, \* form field llm_provider; request.provider; "" for None
    pipe_pc,          \* "idle", "start", "ocr", "paraphrase", "llm",
                      \* "llm_await", "llm_except", "respond", "done"
    raw_xml,          \* text_to_xml(raw_text); request.xml_content
    paraphrased_xml,  \* result of the paraphrase stage
    llm_provider,     \* provider after defaulting to config.LLM_PROVIDER
    llm_error,        \* the exception paraphrase_xml raised, "" for none
    llm_calls,        \* history: the remote text-generation calls made
    pipe_log,         \* number of lines the "LLM error" print has written
    resp              \* the HTTP response, status 0 while there is none

pipe_vars ==
    <<endpoint, api_keys, content_type, file_size, use_mock_llm,
      llm_provider_arg, pipe_pc, raw_xml, paraphrased_xml, llm_provider,
      llm_error, llm_calls, pipe_log, resp>>

vars == <<xml_vars, esc_vars, ocr_vars, pipe_vars>>

(***************************************************************************)
(* Characters the code names.                                              *)
(***************************************************************************)
NL == 10
HASH == 35
COLON == 58
AMP == 38
LT == 60
GT == 62
QUOT == 34
APOS == 39

(***************************************************************************)
(* str helpers: strip, split, join, replace.                               *)
(***************************************************************************)
\* the characters str.isspace() and the regex class \s accept
Whitespace ==
    {9, 10, 11, 12, 13, 28, 29, 30, 31, 32, 133, 160, 5760} \cup (8192..8202)
        \cup {8232, 8233, 8239, 8287, 12288}

IsSpace(c) == c \in Whitespace

RECURSIVE LStrip(_)
LStrip(s) == IF s # <<>> /\ IsSpace(Head(s)) THEN LStrip(Tail(s)) ELSE s

RECURSIVE RStrip(_)
RStrip(s) ==
    IF s # <<>> /\ IsSpace(s[Len(s)]) THEN RStrip(SubSeq(s, 1, Len(s) - 1)) ELSE s

\* str.strip()
strip(s) == RStrip(LStrip(s))

\* position of the first occurrence of character c in s, 0 when absent
IndexOf(s, c) ==
    IF \E i \in 1..Len(s) : s[i] = c
    THEN CHOOSE i \in 1..Len(s) : s[i] = c /\ \A j \in 1..(i - 1) : s[j] # c
    ELSE 0

\* c in s
Contains(s, c) == IndexOf(s, c) # 0

\* str.split(sep) for a one-character separator
RECURSIVE split(_, _)
split(s, sep) ==
    LET k == IndexOf(s, sep)
    IN  IF k = 0 THEN <<s>>
        ELSE <<SubSeq(s, 1, k - 1)>> \o split(SubSeq(s, k + 1, Len(s)), sep)

\* sep.join(parts) for a one-character separator
RECURSIVE join(_, _)
join(parts, sep) ==
    IF parts = <<>> THEN <<>>
    ELSE IF Len(parts) = 1 THEN parts[1]
    ELSE parts[1] \o <<sep>> \o join(Tail(parts), sep)

\* str.replace(old, new) for a one-character old
RECURSIVE replace(_, _, _)
replace(s, old, new) ==
    IF s = <<>> THEN <<>>
    ELSE (IF Head(s) = old THEN new ELSE <<Head(s)>>) \o replace(Tail(s), old, new)

\* bool(s) of a str or None
Truthy(s) == s # <<>>

\* the value None where it is told apart from a str: no sequence of code
\* points
None == <<-1>>

\* bool(id) of an identifier argument, "" standing for None
Given(id) == id # ""

(***************************************************************************)
(* escape_xml                                                              *)
(***************************************************************************)
EntAmp == <<38, 97, 109, 112, 59>>          \* &amp;
EntLt == <<38, 108, 116, 59>>               \* &lt;
EntGt == <<38, 103, 116, 59>>               \* &gt;
EntQuot == <<38, 113, 117, 111, 116, 59>>   \* &quot;
EntApos == <<38, 97, 112, 111, 115, 59>>    \* &apos;

\* a slip in the order of the replacements: '&' is replaced last, so the
\* '&' of the entities written before it is escaped again
escape_xml_amp_last(txt) ==
    replace(replace(replace(replace(replace(txt,
        LT, EntLt), GT, EntGt), QUOT, EntQuot), APOS, EntApos), AMP, EntAmp)

escape_xml(txt) ==
    replace(replace(replace(replace(replace(txt,
        AMP, EntAmp), LT, EntLt), GT, EntGt), QUOT, EntQuot), APOS, EntApos)

(***************************************************************************)
(* The two regular expressions of text_to_xml, matched with re.IGNORECASE. *)
(***************************************************************************)
\* simple case folding of re.IGNORECASE on the code points the model uses:
\* ASCII, Latin-1, D with stroke, O and U with horn, the Vietnamese block
\* U+1EA0..U+1EF9, and the dotted/dotless i that fold to 'i'
Fold(c) ==
    IF c \in (65..90) \cup (192..214) \cup (216..222) THEN c + 32
    ELSE IF c \in {272, 416, 431} THEN c + 1
    ELSE IF c \in 7840..7929 /\ c % 2 = 0 THEN c + 1
    ELSE IF c \in {304, 305} THEN 105
    ELSE c

\* line starts, ignoring case, with the literal word
StartsWithCI(line, word) ==
    /\ Len(line) >= Len(word)
    /\ \A i \in 1..Len(word) : Fold(line[i]) = Fold(word[i])

WordDieu == <<272, 105, 7873, 117>>             \* "Dieu"   (Article)
WordMuc == <<77, 7909, 99>>                     \* "Muc"    (Section)
WordPhan == <<80, 104, 7847, 110>>              \* "Phan"   (Part)
WordChuong == <<67, 104, 432, 417, 110, 103>>   \* "Chuong" (Chapter)
SectionWords == {WordDieu, WordMuc, WordPhan, WordChuong}

\* re.match(r'^(Dieu|Muc|Phan|Chuong|##?\s)', line, re.IGNORECASE)
IsSectionHeader(line) ==
    \/ \E w \in SectionWords : StartsWithCI(line, w)
    \/ Len(line) >= 2 /\ line[1] = HASH /\ IsSpace(line[2])
    \/ Len(line) >= 3 /\ line[1] = HASH /\ line[2] = HASH /\ IsSpace(line[3])

RECURSIVE LDropHash(_)
LDropHash(s) == IF s # <<>> /\ Head(s) = HASH THEN LDropHash(Tail(s)) ELSE s

\* re.sub(r'^#+\s*', '', line)
clean_title(line) ==
    IF line # <<>> /\ Head(line) = HASH THEN LStrip(LDropHash(line)) ELSE line

WordBen == <<66, 234, 110>>                              \* "Ben" (Party)
WordDiaChi == <<272, 7883, 97, 32, 99, 104, 7881>>       \* "Dia chi" (Address)
WordTongGiaTri ==
    <<84, 7893, 110, 103, 32, 103, 105, 225, 32, 116, 114, 7883>>  \* "Tong gia tri"
WordThanhToan == <<84, 104, 97, 110, 104, 32, 116, 111, 225, 110>> \* "Thanh toan"
FieldWords == {WordDiaChi, WordTongGiaTri, WordThanhToan}

\* [A-Za-z] under re.IGNORECASE: the 52 ASCII letters and the four
\* non-ASCII letters that case-fold onto them
AsciiLetterCI == (65..90) \cup (97..122) \cup {304, 305, 383, 8490}

\* length of the longest prefix of line made of [A-Za-z]
RECURSIVE LetterRun(_)
LetterRun(line) ==
    IF line # <<>> /\ Head(line) \in AsciiLetterCI
    THEN 1 + LetterRun(Tail(line)) ELSE 0

\* re.match(r'^(Ben\s+[A-Z]|Dia chi|Tong gia tri|Thanh toan|[A-Za-z]+):',
\*          line, re.IGNORECASE)
IsFieldLine(line) ==
    \/ /\ StartsWithCI(line, WordBen)
       /\ \E k \in 1..Len(line) :
            /\ Len(line) >= 5 + k
            /\ \A j \in 4..(3 + k) : IsSpace(line[j])
            /\ line[4 + k] \in AsciiLetterCI
            /\ line[5 + k] = COLON
    \/ \E w \in FieldWords :
            /\ StartsWithCI(line, w)
            /\ Len(line) > Len(w)
            /\ line[Len(w) + 1] = COLON
    \/ LET n == LetterRun(line)
       IN  n >= 1 /\ Len(line) > n /\ line[n + 1] = COLON

\* char.isalnum() on the code points the model uses (below U+02C2 and the
\* block U+1E00..U+1EFF)
IsAlnum(c) ==
    c \in (48..57) \cup (65..90) \cup (97..122) \cup {170, 178, 179, 181, 185, 186}
            \cup (188..190) \cup (192..214) \cup (216..246) \cup (248..705)
            \cup (7680..7935)

\* any(char.isalnum() for char in line)
HasAlnum(line) == \E i \in 1..Len(line) : IsAlnum(line[i])

(***************************************************************************)
(* The markup text_to_xml writes.                                          *)
(***************************************************************************)
\* <?xml version="1.0" encoding="UTF-8"?>
XmlDecl ==
    <<60, 63, 120, 109, 108, 32, 118, 101, 114, 115, 105, 111, 110, 61, 34, 49,
      46, 48, 34, 32, 101, 110, 99, 111, 100, 105, 110, 103, 61, 34, 85, 84, 70,
      45, 56, 34, 63, 62>>
DocOpen == <<60, 100, 111, 99, 117, 109, 101, 110, 116, 62>>        \* <document>
DocClose == <<60, 47, 100, 111, 99, 117, 109, 101, 110, 116, 62>>   \* </document>
\* two spaces, then <section title="
SecOpenPre ==
    <<32, 32, 60, 115, 101, 99, 116, 105, 111, 110, 32, 116, 105, 116, 108,
      101, 61, 34>>
AttrEnd == <<34, 62>>                                               \* ">
SecClose == <<32, 32, 60, 47, 115, 101, 99, 116, 105, 111, 110, 62>> \* </section>
\* four spaces, then <paragraph>
ParaPre == <<32, 32, 32, 32, 60, 112, 97, 114, 97, 103, 114, 97, 112, 104, 62>>
ParaPost == <<60, 47, 112, 97, 114, 97, 103, 114, 97, 112, 104, 62>> \* </paragraph>
\* two spaces, then <field name="
FieldPre == <<32, 32, 60, 102, 105, 101, 108, 100, 32, 110, 97, 109, 101, 61, 34>>
FieldPost == <<60, 47, 102, 105, 101, 108, 100, 62>>                \* </field>
HeaderPre == <<32, 32, 60, 104, 101, 97, 100, 101, 114, 62>>        \* <header>
HeaderPost == <<60, 47, 104, 101, 97, 100, 101, 114, 62>>           \* </header>

\* f'  <section title="{escape_xml(current_section)}">'
SectionOpen(title) == SecOpenPre \o escape_xml(title) \o AttrEnd

\* f'    <paragraph>{escape_xml(content)}</paragraph>'
ParagraphElem(content) == ParaPre \o escape_xml(content) \o ParaPost

\* f'  <header>{escape_xml(line)}</header>'
HeaderElem(line) == HeaderPre \o escape_xml(line) \o HeaderPost

\* key, value = line.split(':', 1)
FieldKey(line) == SubSeq(line, 1, IndexOf(line, COLON) - 1)
FieldValue(line) == SubSeq(line, IndexOf(line, COLON) + 1, Len(line))

\* f'  <field name="{escape_xml(key.strip())}">{escape_xml(value.strip())}</field>'
FieldElem(line) ==
    FieldPre \o escape_xml(strip(FieldKey(line))) \o AttrEnd
        \o escape_xml(strip(FieldValue(line))) \o FieldPost

(***************************************************************************)
(* text_to_xml as a state machine: one action per branch of the loop body. *)
(***************************************************************************)
\* [line.strip() for line in text.split('\n') if line.strip()]
split_lines(t) ==
    LET raw == split(t, NL)
        stripped == [k \in 1..Len(raw) |-> strip(raw[k])]
        NonBlank(l) == Truthy(l)
    IN  SelectSeq(stripped, NonBlank)

\* a slip in the flush: a section without paragraphs is dropped
section_flush_nonempty(parts, title, content) ==
    IF Truthy(title) /\ content # <<>>
    THEN parts \o <<SectionOpen(title)>>
               \o [k \in 1..Len(content) |-> ParagraphElem(content[k])]
               \o <<SecClose>>
    ELSE parts

\* a slip in the flush: the paragraphs are written last-in first-out
section_flush_reversed(parts, title, content) ==
    IF Truthy(title)
    THEN parts \o <<SectionOpen(title)>>
               \o [k \in 1..Len(content) |->
                      ParagraphElem(content[Len(content) + 1 - k])]
               \o <<SecClose>>
    ELSE parts

\* "Save previous section" / "Save last section": if current_section is
\* set, write its opening tag, one paragraph per buffered line, its closing tag
section_flush(parts, title, content) ==
    IF Truthy(title)
    THEN parts \o <<SectionOpen(title)>>
               \o [k \in 1..Len(content) |-> ParagraphElem(content[k])]
               \o <<SecClose>>
    ELSE parts

\* a slip in the field branch: writing a field also closes the open section
LoopBody_field_closes(st, line) ==
    IF IsSectionHeader(line)
    THEN [xml_parts |-> section_flush(st.xml_parts, st.current_section,
                                      st.section_content),
          current_section |-> clean_title(line),
          section_content |-> <<>>]
    ELSE IF IsFieldLine(line)
    THEN [xml_parts |-> Append(section_flush(st.xml_parts, st.current_section,
                                             st.section_content),
                               FieldElem(line)),
          current_section |-> <<>>,
          section_content |-> <<>>]
    ELSE IF Truthy(st.current_section)
    THEN [st EXCEPT !.section_content = Append(@, line)]
    ELSE IF ~HasAlnum(line)
    THEN st
    ELSE [st EXCEPT !.xml_parts = Append(@, HeaderElem(line))]

\* a slip in the field branch: with a section open the field line is
\* buffered as a paragraph of the section
LoopBody_field_buffered(st, line) ==
    IF IsSectionHeader(line)
    THEN [xml_parts |-> section_flush(st.xml_parts, st.current_section,
                                      st.section_content),
          current_section |-> clean_title(line),
          section_content |-> <<>>]
    ELSE IF Truthy(st.current_section)
    THEN [st EXCEPT !.section_content = Append(@, line)]
    ELSE IF IsFieldLine(line)
    THEN [st EXCEPT !.xml_parts = Append(@, FieldElem(line))]
    ELSE IF ~HasAlnum(line)
    THEN st
    ELSE [st EXCEPT !.xml_parts = Append(@, HeaderElem(line))]

\* a slip in the last branches: the alphanumeric test comes before the test
\* for an open section, so a punctuation-only line is always dropped
LoopBody_alnum_first(st, line) ==
    IF IsSectionHeader(line)
    THEN [xml_parts |-> section_flush(st.xml_parts, st.current_section,
                                      st.section_content),
          current_section |-> clean_title(line),
          section_content |-> <<>>]
    ELSE IF IsFieldLine(line)
    THEN IF Contains(line, COLON)
         THEN [st EXCEPT !.xml_parts = Append(@, FieldElem(line))]
         ELSE [st EXCEPT !.section_content = Append(@, line)]
    ELSE IF ~HasAlnum(line)
    THEN st
    ELSE IF Truthy(st.current_section)
    THEN [st EXCEPT !.section_content = Append(@, line)]
    ELSE [st EXCEPT !.xml_parts = Append(@, HeaderElem(line))]

\* the body of "for line in lines", on the loop's three variables
LoopBody(st, line) ==
    IF IsSectionHeader(line)
    THEN [xml_parts |-> section_flush(st.xml_parts, st.current_section,
                                      st.section_content),
          current_section |-> clean_title(line),
          section_content |-> <<>>]
    ELSE IF IsFieldLine(line)
    THEN IF Contains(line, COLON)
         THEN [st EXCEPT !.xml_parts = Append(@, FieldElem(line))]
         ELSE [st EXCEPT !.section_content = Append(@, line)]
    ELSE IF Truthy(st.current_section)
    THEN [st EXCEPT !.section_content = Append(@, line)]
    ELSE IF ~HasAlnum(line)
    THEN st
    ELSE [st EXCEPT !.xml_parts = Append(@, HeaderElem(line))]

\* the loop's variables before the first line
LoopInit ==
    [xml_parts |-> <<XmlDecl, DocOpen>>,
     current_section |-> <<>>,
     section_content |-> <<>>]

RECURSIVE xml_loop(_, _, _)
xml_loop(ls, i, st) ==
    IF i > Len(ls) THEN st ELSE xml_loop(ls, i + 1, LoopBody(st, ls[i]))

\* the statements after the loop: flush the last section, close the
\* document, join the lines
xml_finish(st) ==
    Append(section_flush(st.xml_parts, st.current_section, st.section_content),
           DocClose)

\* text_to_xml as a function, as the endpoints call it
text_to_xml(t) == join(xml_finish(xml_loop(split_lines(t), 1, LoopInit)), NL)

\* text_to_xml touches nothing else
XmlOthers == UNCHANGED <<esc_vars, ocr_vars, pipe_vars>>

LoopState ==
    [xml_parts |-> xml_parts,
     current_section |-> current_section,
     section_content |-> section_content]

\* one iteration of the loop on lines[idx]
LoopStep ==
    LET st == LoopBody(LoopState, lines[idx])
    IN  /\ xml_parts' = st.xml_parts
        /\ current_section' = st.current_section
        /\ section_content' = st.section_content
        /\ idx' = idx + 1
        /\ UNCHANGED <<text, lines, xml_pc, xml_result>>
        /\ XmlOthers

AtLine == xml_pc = "loop" /\ idx <= Len(lines)

\* the history written by a flush of the open section
FlushOrigin ==
    IF Truthy(current_section)
    THEN origin \o <<cur_line>> \o content_lines \o <<cur_line>>
    ELSE origin

\* entry of text_to_xml up to the loop
XmlStart ==
    /\ xml_pc = "start"
    /\ lines' = split_lines(text)
    /\ xml_parts' = LoopInit.xml_parts
    /\ current_section' = LoopInit.current_section
    /\ section_content' = LoopInit.section_content
    /\ idx' = 1
    /\ origin' = <<0, 0>>
    /\ cur_line' = 0
    /\ content_lines' = <<>>
    /\ xml_pc' = "loop"
    /\ UNCHANGED <<text, xml_result>>
    /\ XmlOthers

\* the line is a section header
XmlSectionHeader ==
    /\ AtLine
    /\ IsSectionHeader(lines[idx])
    /\ LoopStep
    /\ origin' = FlushOrigin
    /\ cur_line' = idx
    /\ content_lines' = <<>>

\* the line matches the key-value pattern
XmlField ==
    /\ AtLine
    /\ ~IsSectionHeader(lines[idx])
    /\ IsFieldLine(lines[idx])
    /\ LoopStep
    /\ IF Contains(lines[idx], COLON)
       THEN origin' = Append(origin, idx) /\ content_lines' = content_lines
       ELSE origin' = origin /\ content_lines' = Append(content_lines, idx)
    /\ UNCHANGED cur_line

\* any other line while a section is open
XmlBody ==
    /\ AtLine
    /\ ~IsSectionHeader(lines[idx])
    /\ ~IsFieldLine(lines[idx])
    /\ Truthy(current_section)
    /\ LoopStep
    /\ content_lines' = Append(content_lines, idx)
    /\ UNCHANGED <<origin, cur_line>>

\* any other line with an alphanumeric character while no section is open
XmlHeader ==
    /\ AtLine
    /\ ~IsSectionHeader(lines[idx])
    /\ ~IsFieldLine(lines[idx])
    /\ ~Truthy(current_section)
    /\ HasAlnum(lines[idx])
    /\ LoopStep
    /\ origin' = Append(origin, idx)
    /\ UNCHANGED <<cur_line, content_lines>>

\* any other line without an alphanumeric character while no section is open
XmlDiscard ==
    /\ AtLine
    /\ ~IsSectionHeader(lines[idx])
    /\ ~IsFieldLine(lines[idx])
    /\ ~Truthy(current_section)
    /\ ~HasAlnum(lines[idx])
    /\ LoopStep
    /\ UNCHANGED <<origin, cur_line, content_lines>>

\* after the loop
XmlFinish ==
    /\ xml_pc = "loop"
    /\ idx > Len(lines)
    /\ xml_parts' = xml_finish(LoopState)
    /\ xml_result' = join(xml_parts', NL)
    /\ origin' = Append(FlushOrigin, 0)
    /\ xml_pc' = "done"
    /\ UNCHANGED <<text, lines, idx, current_section, section_content,
                   cur_line, content_lines>>
    /\ XmlOthers

XmlIdle ==
    /\ text = <<>>
    /\ lines = <<>>
    /\ idx = 0
    /\ xml_parts = <<>>
    /\ current_section = <<>>
    /\ section_content = <<>>
    /\ xml_pc = "idle"
    /\ xml_result = <<>>
    /\ origin = <<>>
    /\ cur_line = 0
    /\ content_lines = <<>>

\* the raw lines the input texts are made of
LinePool ==
    { <<77, 7908, 67, 32, 50, 58, 32, 107>>,          \* "MUC 2: k" (upper case)
      <<35, 32, 84, 60>>,                             \* "# T<"
      <<35, 35, 32, 32, 97>>,                         \* "##  a"
      <<35, 35, 35, 32, 84>>,                         \* "### T"
      <<66, 234, 110, 32, 32, 65, 58, 32, 118, 38>>,  \* "Ben  A: v&"
      <<97, 58, 98, 58>>,                             \* "a:b:"
      <<107, 58>>,                                    \* "k:"
      <<38, 97, 109, 112, 59, 32, 121>>,              \* "&amp; y"
      <<32, 112, 39, 34, 113, 62, 9>>,                \* " p'"q>" and a tab
      <<45, 45>>,                                     \* "--"
      <<32, 32>> }                                    \* blank

\* the texts of at most MaxLines raw lines from LinePool
XmlInputs ==
    { join(f, NL) : f \in UNION { [1..n -> LinePool] : n \in 0..MaxLines } }

(***************************************************************************)
(* escape_xml applied to a pair of strings.                                *)
(***************************************************************************)
\* the characters of the first input: the five reserved ones, 'a' and ';'
EscAlphabet == {AMP, LT, GT, QUOT, APOS, 97, 59}

EscInputs == UNION { [1..n -> EscAlphabet] : n \in 0..MaxEscLen }

\* second inputs: strings that look like results of escaping
EscPool ==
    { <<>>, <<AMP>>, <<LT>>, <<APOS>>, <<QUOT>>, <<97>>,
      EntAmp, EntLt, EntQuot, EntApos, EntAmp \o SubSeq(EntAmp, 2, 5),
      <<AMP, AMP>>, <<AMP, LT>>, <<LT, AMP>>, <<AMP, 59>>, <<AMP, 97, 59>> }

EscapeCall ==
    /\ esc_pc = "start"
    /\ esc_ra' = escape_xml(esc_a)
    /\ esc_rb' = escape_xml(esc_b)
    /\ esc_pc' = "done"
    /\ UNCHANGED <<esc_a, esc_b>>
    /\ UNCHANGED <<xml_vars, ocr_vars, pipe_vars>>

EscIdle ==
    /\ esc_a = <<>>
    /\ esc_b = <<>>
    /\ esc_ra = <<>>
    /\ esc_rb = <<>>
    /\ esc_pc = "idle"

(***************************************************************************)
(* mock_ocr: the fixed sample contract, 16 lines, whatever the image.      *)
(***************************************************************************)
mock_ocr ==
    << 72, 7907, 112, 32, 273, 7891, 110, 103, 32, 109, 117, 97, 32, 98,
       225, 110, 10, 32, 32, 32, 32, 10, 66, 234, 110, 32, 65, 58, 32, 67,
       244, 110, 103, 32, 116, 121, 32, 84, 78, 72, 72, 32, 65, 66, 67,
       10, 272, 7883, 97, 32, 99, 104, 7881, 58, 32, 49, 50, 51, 32, 272,
       432, 7901, 110, 103, 32, 78, 103, 117, 121, 7877, 110, 32, 72, 117,
       7879, 44, 32, 81, 117, 7853, 110, 32, 49, 44, 32, 84, 80, 46, 72,
       67, 77, 10, 10, 66, 234, 110, 32, 66, 58, 32, 212, 110, 103, 32,
       78, 103, 117, 121, 7877, 110, 32, 86, 259, 110, 32, 65, 10, 272,
       7883, 97, 32, 99, 104, 7881, 58, 32, 52, 53, 54, 32, 272, 432,
       7901, 110, 103, 32, 76, 234, 32, 76, 7907, 105, 44, 32, 81, 117,
       7853, 110, 32, 51, 44, 32, 84, 80, 46, 72, 67, 77, 10, 10, 272,
       105, 7873, 117, 32, 49, 58, 32, 272, 7889, 105, 32, 116, 432, 7907,
       110, 103, 32, 104, 7907, 112, 32, 273, 7891, 110, 103, 10, 66, 234,
       110, 32, 65, 32, 273, 7891, 110, 103, 32, 253, 32, 98, 225, 110,
       32, 99, 104, 111, 32, 66, 234, 110, 32, 66, 32, 115, 7843, 110, 32,
       112, 104, 7849, 109, 32, 116, 104, 101, 111, 32, 100, 97, 110, 104,
       32, 115, 225, 99, 104, 32, 273, 237, 110, 104, 32, 107, 232, 109,
       46, 10, 10, 272, 105, 7873, 117, 32, 50, 58, 32, 71, 105, 225, 32,
       116, 114, 7883, 32, 104, 7907, 112, 32, 273, 7891, 110, 103, 10,
       84, 7893, 110, 103, 32, 103, 105, 225, 32, 116, 114, 7883, 58, 32,
       49, 48, 48, 46, 48, 48, 48, 46, 48, 48, 48, 32, 86, 78, 272, 32,
       40, 77, 7897, 116, 32, 116, 114, 259, 109, 32, 116, 114, 105, 7879,
       117, 32, 273, 7891, 110, 103, 41, 10, 10, 272, 105, 7873, 117, 32,
       51, 58, 32, 80, 104, 432, 417, 110, 103, 32, 116, 104, 7913, 99,
       32, 116, 104, 97, 110, 104, 32, 116, 111, 225, 110, 10, 84, 104,
       97, 110, 104, 32, 116, 111, 225, 110, 32, 53, 48, 37, 32, 107, 104,
       105, 32, 107, 253, 32, 104, 7907, 112, 32, 273, 7891, 110, 103, 44,
       32, 53, 48, 37, 32, 99, 242, 110, 32, 108, 7841, 105, 32, 107, 104,
       105, 32, 103, 105, 97, 111, 32, 104, 224, 110, 103, 46 >>

(***************************************************************************)
(* mock_paraphrase: re.sub over '<([^/>]+)>([^<]+)</([^>]+)>'.             *)
(***************************************************************************)
SLASH == 47
QMARK == 63
\* "[Da viet lai] " (rewritten), with its trailing space
ParaphraseMarker ==
    <<91, 272, 227, 32, 118, 105, 7871, 116, 32, 108, 7841, 105, 93, 32>>

\* least position >= from of a character of set cs in s, 0 when there is none
NextIn(s, from, cs) ==
    IF \E i \in from..Len(s) : s[i] \in cs
    THEN CHOOSE i \in from..Len(s) :
            s[i] \in cs /\ \A j \in from..(i - 1) : s[j] \notin cs
    ELSE 0

\* a slip in the pattern: '<(\w+)>' for the opening tag, which leaves out
\* tags with attributes
TagMatch_plain_tags(s, i) ==
    LET j == NextIn(s, i + 1, {SLASH, GT, 32, QUOT})
        k == NextIn(s, j + 1, {LT})
        m == NextIn(s, k + 2, {GT})
    IN  IF /\ s[i] = LT
           /\ j > i + 1 /\ s[j] = GT
           /\ k > j + 1 /\ k < Len(s) /\ s[k + 1] = SLASH
           /\ m > k + 2
        THEN <<j, k, m>> ELSE <<0, 0, 0>>

\* the positions <<j, k, m>> of a match of the pattern that starts at i:
\* s[i] = '<', s[j] = '>' closes the opening tag, s[k] = '<' opens the
\* closing tag, s[m] = '>' ends it; <<0, 0, 0>> when no match starts at i
TagMatch(s, i) ==
    LET j == NextIn(s, i + 1, {SLASH, GT})
        k == NextIn(s, j + 1, {LT})
        m == NextIn(s, k + 2, {GT})
    IN  IF /\ s[i] = LT
           /\ j > i + 1 /\ s[j] = GT
           /\ k > j + 1 /\ k < Len(s) /\ s[k + 1] = SLASH
           /\ m > k + 2
        THEN <<j, k, m>> ELSE <<0, 0, 0>>

\* a slip in replace_content: blank content is marked like any other
replace_content_marks_blank(s, i, j, k, m) ==
    LET tag == SubSeq(s, i + 1, j - 1)
        content == SubSeq(s, j + 1, k - 1)
        closing_tag == SubSeq(s, k + 2, m - 1)
    IN  IF Head(tag) = QMARK
        THEN SubSeq(s, i, m)
        ELSE <<LT>> \o tag \o <<GT>> \o ParaphraseMarker \o content
                 \o <<LT, SLASH>> \o closing_tag \o <<GT>>

\* replace_content(match), on the matched text s[i..m]
replace_content(s, i, j, k, m) ==
    LET tag == SubSeq(s, i + 1, j - 1)
        content == SubSeq(s, j + 1, k - 1)
        closing_tag == SubSeq(s, k + 2, m - 1)
    IN  IF Head(tag) = QMARK \/ ~Truthy(strip(content))
        THEN SubSeq(s, i, m)
        ELSE <<LT>> \o tag \o <<GT>> \o ParaphraseMarker \o content
                 \o <<LT, SLASH>> \o closing_tag \o <<GT>>

\* re.sub scanning s from position i: leftmost non-overlapping matches; a
\* match can only start at a '<', the text between matches is copied
RECURSIVE paraphrase_from(_, _)
paraphrase_from(s, i) ==
    LET p == NextIn(s, i, {LT})
    IN  IF p = 0 THEN SubSeq(s, i, Len(s))
        ELSE LET mt == TagMatch(s, p)
             IN  IF mt[3] = 0
                 THEN SubSeq(s, i, p) \o paraphrase_from(s, p + 1)
                 ELSE SubSeq(s, i, p - 1)
                          \o replace_content(s, p, mt[1], mt[2], mt[3])
                          \o paraphrase_from(s, mt[3] + 1)

mock_paraphrase(xml_content) == paraphrase_from(xml_content, 1)

(***************************************************************************)
(* extract_text_from_image: the provider dispatcher.                       *)
(* Identifiers and labels are the code's string literals; "" stands for    *)
(* an argument that is None.                                               *)
(***************************************************************************)
\* provider identifiers a request is made with: the three of the API's
\* documentation, the two of the dispatcher's own branches, an unknown one
ProviderArgs ==
    {"", "replicate", "clarifai", "mock", "deepseek", "tesseract", "bogus"}
\* values the environment gives config.OCR_PROVIDER (default "deepseek")
ConfigProviders == {"deepseek", "mock"}
\* values the environment gives config.DEEPSEEK_OCR_MODE (default "local")
ConfigModes == {"local", "vllm", "api", "bogus"}
Images == {"RGB", "L", "invalid"}

\* texts a remote OCR service or a local engine answers with
OcrTexts ==
    { <<>>,                                        \* nothing recognised
      <<32, 10>>,                                  \* a space and a newline
      <<120, 32, 121>>,                            \* "x y"
      <<35, 32, 84, 10, 107, 58, 32, 118, 38, 10, 120, 60, 121>> }
                                                   \* "# T", "k: v&", "x<y"

\* the exceptions a strategy call ends with
LocalErrors == {"missing_dependencies", "model_load", "inference"}
VllmErrors == {"transport", "remote_status"}
ClarifaiErrors == {"transport", "remote_status", "malformed_payload"}
TesseractErrors == {"tesseract_error"}

\* line breaks in the message of an exception a library raised
LibraryBreaks == 0 .. MaxBreaks

\* line breaks in str(e) of the exception the handler prints: the message of
\* get_deepseek_model's "Missing dependencies" error is the ImportError's
\* message, a line break and the install hint; "Failed to load ..." and the
\* Clarifai status error embed a library's text; the ValueErrors of the
\* repository are one line for the identifiers of this model
Breaks(e) ==
    IF e = "missing_dependencies" THEN {n + 1 : n \in LibraryBreaks}
    ELSE IF e \in {"missing_credential", "unknown_mode", "unknown_provider"}
    THEN {0}
    ELSE LibraryBreaks

\* a slip in the handler: the fallback is labelled like a direct mock request
fallback_result_plain_label == [text |-> mock_ocr, label |-> "mock"]

\* return mock_ocr(image), "mock (fallback)"
fallback_result == [text |-> mock_ocr, label |-> "mock (fallback)"]

OcrReturn(t, l) ==
    /\ ocr_text' = t
    /\ ocr_label' = l
    /\ ocr_pc' = "returned"

OcrRaise(e) ==
    /\ ocr_error' = e
    /\ ocr_pc' = "except"
    /\ UNCHANGED <<ocr_text, ocr_label>>

\* the dispatcher touches nothing of its caller
OcrOthers == UNCHANGED <<xml_vars, esc_vars, pipe_vars>>

OcrFrame ==
    /\ UNCHANGED <<image, provider_arg, mode_arg, ocr_provider, ocr_mode, ocr_log,
                   model_cache>>
    /\ OcrOthers

\* a slip in the dispatcher: a strategy that raised is called a second time
StrategyCall_retry(name, l, errs) ==
    /\ \/ /\ ocr_calls' = Append(ocr_calls, name)
          /\ \E t \in OcrTexts : OcrReturn(t, l) /\ UNCHANGED ocr_error
       \/ /\ ocr_calls' = ocr_calls \o <<name, name>>
          /\ \/ \E t \in OcrTexts : OcrReturn(t, l) /\ UNCHANGED ocr_error
             \/ \E e \in errs : OcrRaise(e)
    /\ OcrFrame

\* a strategy call that returns text t under label l or raises one of errs
StrategyCall(name, l, errs) ==
    /\ ocr_calls' = Append(ocr_calls, name)
    /\ \/ \E t \in OcrTexts : OcrReturn(t, l) /\ UNCHANGED ocr_error
       \/ \E e \in errs : OcrRaise(e)
    /\ OcrFrame

\* defaults of the arguments, Image.open and the conversion to RGB, all
\* before the try block
OcrEnter ==
    /\ ocr_pc = "start"
    /\ IF Given(provider_arg) THEN ocr_provider' = provider_arg
       ELSE ocr_provider' \in ConfigProviders
    /\ IF Given(mode_arg) THEN ocr_mode' = mode_arg
       ELSE ocr_mode' \in ConfigModes
    /\ IF image = "invalid"
       THEN /\ ocr_error' = "cannot_identify_image"
            /\ ocr_pc' = "raised"
            /\ image' = image
       ELSE /\ ocr_error' = ""
            /\ ocr_pc' = "try"
            /\ image' = "RGB"
    /\ UNCHANGED <<provider_arg, mode_arg, ocr_text, ocr_label, ocr_calls, ocr_log,
                   model_cache>>
    /\ OcrOthers

InTry == ocr_pc = "try"

\* model.chat(...) of ocr_with_deepseek_local: a text or an exception
LocalInference ==
    \/ \E t \in OcrTexts : OcrReturn(t, "deepseek-local") /\ UNCHANGED ocr_error
    \/ OcrRaise("inference")

\* the RuntimeErrors of get_deepseek_model: "Missing dependencies" for an
\* ImportError, "Failed to load" for any other exception
LoadErrors == {"missing_dependencies", "model_load"}

\* provider "deepseek", mode "local": ocr_with_deepseek_local, which first
\* calls get_deepseek_model. With the model cached nothing is loaded or
\* printed. Otherwise an exception of either class may be raised by the
\* imports, before the first line is printed, or by the loading after it;
\* when none is raised the model is cached and a second line is printed,
\* before the inference runs.
OcrDeepseekLocal ==
    /\ InTry /\ ocr_provider = "deepseek" /\ ocr_mode = "local"
    /\ ocr_calls' = Append(ocr_calls, "ocr_with_deepseek_local")
    /\ \/ /\ model_cache
          /\ LocalInference
          /\ UNCHANGED <<ocr_log, model_cache>>
       \/ /\ ~model_cache
          /\ \E e \in LoadErrors : OcrRaise(e)
          /\ \E printed \in {0, 1} : ocr_log' = ocr_log + printed
          /\ UNCHANGED model_cache
       \/ /\ ~model_cache
          /\ model_cache' = TRUE
          /\ ocr_log' = ocr_log + 2
          /\ LocalInference
    /\ UNCHANGED <<image, provider_arg, mode_arg, ocr_provider, ocr_mode>>
    /\ OcrOthers

\* provider "deepseek", mode "vllm"
OcrDeepseekVllm ==
    /\ InTry /\ ocr_provider = "deepseek" /\ ocr_mode = "vllm"
    /\ StrategyCall("ocr_with_deepseek_vllm", "deepseek-vllm", VllmErrors)

\* provider "deepseek", mode "api": ocr_with_clarifai, which raises at once
\* when config.CLARIFAI_PAT is not set
OcrDeepseekClarifai ==
    /\ InTry /\ ocr_provider = "deepseek" /\ ocr_mode = "api"
    /\ StrategyCall("ocr_with_clarifai", "deepseek-clarifai",
                    ClarifaiErrors \cup {"missing_credential"})

\* provider "deepseek", any other mode
OcrUnknownMode ==
    /\ InTry /\ ocr_provider = "deepseek"
    /\ ocr_mode \notin {"local", "vllm", "api"}
    /\ OcrRaise("unknown_mode")
    /\ UNCHANGED ocr_calls
    /\ OcrFrame

\* provider "tesseract": ocr_with_tesseract answers with the text of
\* mock_ocr when pytesseract cannot be imported
OcrTesseract ==
    /\ InTry /\ ocr_provider = "tesseract"
    /\ \/ StrategyCall("ocr_with_tesseract", "tesseract", TesseractErrors)
       \/ /\ ocr_calls' = ocr_calls \o <<"ocr_with_tesseract", "mock_ocr">>
          /\ OcrReturn(mock_ocr, "tesseract")
          /\ UNCHANGED ocr_error
          /\ OcrFrame

\* provider "mock"
OcrMock ==
    /\ InTry /\ ocr_provider = "mock"
    /\ ocr_calls' = Append(ocr_calls, "mock_ocr")
    /\ OcrReturn(mock_ocr, "mock")
    /\ UNCHANGED ocr_error
    /\ OcrFrame

\* any other provider
OcrUnknownProvider ==
    /\ InTry /\ ocr_provider \notin {"deepseek", "tesseract", "mock"}
    /\ OcrRaise("unknown_provider")
    /\ UNCHANGED ocr_calls
    /\ OcrFrame

\* except Exception: print(f"OCR error (...): {e}") writes the lines of the
\* message, print("Falling back to mock OCR...") one more, and the mock
\* text is returned
OcrFallback ==
    /\ ocr_pc = "except"
    /\ \E n \in Breaks(ocr_error) : ocr_log' = ocr_log + (n + 1) + 1
    /\ ocr_calls' = Append(ocr_calls, "mock_ocr")
    /\ OcrReturn(fallback_result.text, fallback_result.label)
    /\ UNCHANGED <<image, provider_arg, mode_arg, ocr_provider, ocr_mode, ocr_error,
                   model_cache>>
    /\ OcrOthers

OcrIdle ==
    /\ image = "RGB"
    /\ provider_arg = ""
    /\ mode_arg = ""
    /\ ocr_provider = ""
    /\ ocr_mode = ""
    /\ ocr_pc = "idle"
    /\ ocr_text = <<>>
    /\ ocr_label = ""
    /\ ocr_error = ""
    /\ ocr_calls = <<>>
    /\ ocr_log = 0
    /\ model_cache = FALSE

(***************************************************************************)
(* paraphrase_xml and the /ocr endpoint process_ocr.                       *)
(***************************************************************************)
MAX_FILE_SIZE == 10485760

AllowedTypes == {"image/jpeg", "image/png", "image/gif", "image/bmp", "image/tiff"}

\* values the environment gives config.LLM_PROVIDER (default "openai")
ConfigLlmProviders == {"openai", "anthropic"}
LlmProviderArgs == {"", "openai", "anthropic", "bogus"}

\* texts a remote text-generation service answers with
LlmTexts ==
    { <<>>,
      <<60, 100, 62, 111, 107, 60, 47, 100, 62>> }   \* "<d>ok</d>"

\* response.choices[0].message.content is a str or None
OpenAIAnswers == LlmTexts \cup {None}
\* response.content[0].text is a str
AnthropicAnswers == LlmTexts

\* line breaks in str(e) of the exception paraphrase_xml raised: the
\* ValueErrors of the repository are one line for the identifiers of this
\* model, the other messages are a library's
LlmBreaks(e) ==
    IF e \in {"missing_credential", "unknown_provider"} THEN {0}
    ELSE LibraryBreaks

Response(code, ok, rtext, xml, para, label, msg) ==
    [status |-> code, success |-> ok, raw_text |-> rtext, raw_xml |-> xml,
     paraphrased_xml |-> para, ocr_provider |-> label, message |-> msg]

NoResponse == Response(0, FALSE, <<>>, <<>>, <<>>, "", "")

\* raise HTTPException(status_code=code, detail=msg)
HttpError(code, msg) == Response(code, FALSE, <<>>, <<>>, <<>>, "", msg)

PipeFrame ==
    UNCHANGED <<endpoint, api_keys, content_type, file_size, use_mock_llm,
                llm_provider_arg>>

\* the content type is not an accepted image type
PipeRejectType ==
    /\ pipe_pc = "start"
    /\ content_type \notin AllowedTypes
    /\ resp' = HttpError(400, "Invalid file type")
    /\ pipe_pc' = "done"
    /\ PipeFrame
    /\ UNCHANGED <<raw_xml, paraphrased_xml, llm_provider, llm_error, llm_calls,
                   pipe_log>>
    /\ UNCHANGED <<xml_vars, esc_vars, ocr_vars>>

\* the upload is larger than config.MAX_FILE_SIZE
PipeRejectSize ==
    /\ pipe_pc = "start"
    /\ content_type \in AllowedTypes
    /\ file_size > MAX_FILE_SIZE
    /\ resp' = HttpError(400, "File too large (max 10MB)")
    /\ pipe_pc' = "done"
    /\ PipeFrame
    /\ UNCHANGED <<raw_xml, paraphrased_xml, llm_provider, llm_error, llm_calls,
                   pipe_log>>
    /\ UNCHANGED <<xml_vars, esc_vars, ocr_vars>>

\* Step 1: extract_text_from_image(image_data, provider=ocr_provider,
\* prompt=ocr_prompt) is entered
PipeCallOcr ==
    /\ pipe_pc = "start"
    /\ content_type \in AllowedTypes
    /\ file_size <= MAX_FILE_SIZE
    /\ ocr_pc' = "start"
    /\ pipe_pc' = "ocr"
    /\ PipeFrame
    /\ UNCHANGED <<raw_xml, paraphrased_xml, llm_provider, llm_error, llm_calls,
                   pipe_log, resp>>
    /\ UNCHANGED <<image, provider_arg, mode_arg, ocr_provider, ocr_mode,
                   ocr_text, ocr_label, ocr_error, ocr_calls, ocr_log,
                   model_cache>>
    /\ UNCHANGED <<xml_vars, esc_vars>>

\* an exception left extract_text_from_image: except Exception in
\* process_ocr answers 500
PipeOcrRaised ==
    /\ pipe_pc = "ocr"
    /\ ocr_pc = "raised"
    /\ resp' = HttpError(500, "Processing error")
    /\ pipe_pc' = "done"
    /\ PipeFrame
    /\ UNCHANGED <<raw_xml, paraphrased_xml, llm_provider, llm_error, llm_calls,
                   pipe_log>>
    /\ UNCHANGED <<xml_vars, esc_vars, ocr_vars>>

\* a slip in the emptiness test: if not raw_text.strip()
PipeNoText_on_blank ==
    /\ pipe_pc = "ocr"
    /\ ocr_pc = "returned"
    /\ ~Truthy(strip(ocr_text))
    /\ resp' = Response(200, FALSE, <<>>, <<>>, <<>>, ocr_label,
                        "No text detected in image")
    /\ pipe_pc' = "done"
    /\ PipeFrame
    /\ UNCHANGED <<raw_xml, paraphrased_xml, llm_provider, llm_error, llm_calls,
                   pipe_log>>
    /\ UNCHANGED <<xml_vars, esc_vars, ocr_vars>>

\* if not raw_text
PipeNoText ==
    /\ pipe_pc = "ocr"
    /\ ocr_pc = "returned"
    /\ ~Truthy(ocr_text)
    /\ resp' = Response(200, FALSE, <<>>, <<>>, <<>>, ocr_label,
                        "No text detected in image")
    /\ pipe_pc' = "done"
    /\ PipeFrame
    /\ UNCHANGED <<raw_xml, paraphrased_xml, llm_provider, llm_error, llm_calls,
                   pipe_log>>
    /\ UNCHANGED <<xml_vars, esc_vars, ocr_vars>>

\* Step 2: raw_xml = text_to_xml(raw_text)
PipeStructure ==
    /\ pipe_pc = "ocr"
    /\ ocr_pc = "returned"
    /\ Truthy(ocr_text)
    /\ raw_xml' = text_to_xml(ocr_text)
    /\ pipe_pc' = "paraphrase"
    /\ PipeFrame
    /\ UNCHANGED <<paraphrased_xml, llm_provider, llm_error, llm_calls, pipe_log,
                   resp>>
    /\ UNCHANGED <<xml_vars, esc_vars, ocr_vars>>

\* Step 3 with use_mock_llm set
PipeParaphraseMock ==
    /\ endpoint = "/ocr"
    /\ pipe_pc = "paraphrase"
    /\ use_mock_llm
    /\ paraphrased_xml' = mock_paraphrase(raw_xml)
    /\ pipe_pc' = "respond"
    /\ PipeFrame
    /\ UNCHANGED <<raw_xml, llm_provider, llm_error, llm_calls, pipe_log, resp>>
    /\ UNCHANGED <<xml_vars, esc_vars, ocr_vars>>

\* Step 3 otherwise (and the else branch of paraphrase_only):
\* paraphrase_xml(raw_xml, llm_provider) is entered
LlmEnter ==
    /\ pipe_pc = "paraphrase"
    /\ ~use_mock_llm
    /\ IF Given(llm_provider_arg) THEN llm_provider' = llm_provider_arg
       ELSE llm_provider' \in ConfigLlmProviders
    /\ pipe_pc' = "llm"
    /\ PipeFrame
    /\ UNCHANGED <<raw_xml, paraphrased_xml, llm_error, llm_calls, pipe_log, resp>>
    /\ UNCHANGED <<xml_vars, esc_vars, ocr_vars>>

LlmRaise(e) ==
    /\ llm_error' = e
    /\ pipe_pc' = "llm_except"
    /\ UNCHANGED paraphrased_xml

\* a slip in a provider branch: the API key is not looked at and the remote
\* call is made without it
LlmRemote_no_key_check(name) ==
    /\ \/ LlmRaise("import_error") /\ UNCHANGED llm_calls
       \/ /\ llm_calls' = Append(llm_calls, name)
          /\ pipe_pc' = "llm_await"
          /\ UNCHANGED <<paraphrased_xml, llm_error>>
    /\ PipeFrame
    /\ UNCHANGED <<raw_xml, llm_provider, pipe_log, resp>>
    /\ UNCHANGED <<xml_vars, esc_vars, ocr_vars>>

\* a provider branch of paraphrase_xml up to its await: the import of the
\* client package may fail; without the API key it raises before any call;
\* otherwise the remote call is made and paraphrase_xml is suspended until
\* the service has answered
LlmRemote(name) ==
    /\ \/ LlmRaise("import_error") /\ UNCHANGED llm_calls
       \/ /\ name \notin api_keys
          /\ LlmRaise("missing_credential")
          /\ UNCHANGED llm_calls
       \/ /\ name \in api_keys
          /\ llm_calls' = Append(llm_calls, name)
          /\ pipe_pc' = "llm_await"
          /\ UNCHANGED <<paraphrased_xml, llm_error>>
    /\ PipeFrame
    /\ UNCHANGED <<raw_xml, llm_provider, pipe_log, resp>>
    /\ UNCHANGED <<xml_vars, esc_vars, ocr_vars>>

\* paraphrase_xml is resumed: the awaited call gives the answer that is
\* returned as it is, or raises
LlmResume(answers) ==
    /\ \/ \E t \in answers :
            /\ paraphrased_xml' = t
            /\ pipe_pc' = "respond"
            /\ UNCHANGED llm_error
       \/ LlmRaise("remote_failure")
    /\ PipeFrame
    /\ UNCHANGED <<raw_xml, llm_provider, llm_calls, pipe_log, resp>>
    /\ UNCHANGED <<xml_vars, esc_vars, ocr_vars>>

\* provider "openai", up to await client.chat.completions.create(...)
LlmOpenAI ==
    /\ pipe_pc = "llm"
    /\ llm_provider = "openai"
    /\ LlmRemote("openai")

\* provider "openai", from the await on
LlmOpenAIAnswer ==
    /\ pipe_pc = "llm_await"
    /\ llm_provider = "openai"
    /\ LlmResume(OpenAIAnswers)

\* provider "anthropic", up to await client.messages.create(...)
LlmAnthropic ==
    /\ pipe_pc = "llm"
    /\ llm_provider = "anthropic"
    /\ LlmRemote("anthropic")

\* provider "anthropic", from the await on
LlmAnthropicAnswer ==
    /\ pipe_pc = "llm_await"
    /\ llm_provider = "anthropic"
    /\ LlmResume(AnthropicAnswers)

\* any other LLM provider
LlmUnknownProvider ==
    /\ pipe_pc = "llm"
    /\ llm_provider \notin {"openai", "anthropic"}
    /\ LlmRaise("unknown_provider")
    /\ PipeFrame
    /\ UNCHANGED <<raw_xml, llm_provider, llm_calls, pipe_log, resp>>
    /\ UNCHANGED <<xml_vars, esc_vars, ocr_vars>>

\* except Exception around paraphrase_xml: print(f"LLM error: {e}") writes
\* the lines of the message, then mock_paraphrase
PipeLlmFallback ==
    /\ endpoint = "/ocr"
    /\ pipe_pc = "llm_except"
    /\ \E n \in LlmBreaks(llm_error) : pipe_log' = pipe_log + (n + 1)
    /\ paraphrased_xml' = mock_paraphrase(raw_xml)
    /\ pipe_pc' = "respond"
    /\ PipeFrame
    /\ UNCHANGED <<raw_xml, llm_provider, llm_error, llm_calls, resp>>
    /\ UNCHANGED <<xml_vars, esc_vars, ocr_vars>>

\* OCRResponse(..., paraphrased_xml=None, ...): the field is declared str,
\* the constructor raises a ValidationError inside the try of process_ocr
\* and except Exception answers 500
PipeResponseInvalid ==
    /\ endpoint = "/ocr"
    /\ pipe_pc = "respond"
    /\ paraphrased_xml = None
    /\ resp' = HttpError(500, "Processing error")
    /\ pipe_pc' = "done"
    /\ PipeFrame
    /\ UNCHANGED <<raw_xml, paraphrased_xml, llm_provider, llm_error, llm_calls,
                   pipe_log>>
    /\ UNCHANGED <<xml_vars, esc_vars, ocr_vars>>

\* return OCRResponse(..., success=True, ...)
PipeRespond ==
    /\ endpoint = "/ocr"
    /\ pipe_pc = "respond"
    /\ paraphrased_xml # None
    /\ resp' = Response(200, TRUE, ocr_text, raw_xml, paraphrased_xml, ocr_label,
                        "OCR pipeline completed successfully")
    /\ pipe_pc' = "done"
    /\ PipeFrame
    /\ UNCHANGED <<raw_xml, paraphrased_xml, llm_provider, llm_error, llm_calls,
                   pipe_log>>
    /\ UNCHANGED <<xml_vars, esc_vars, ocr_vars>>

\* POST /paraphrase with request.use_mock set
ParaphraseMock ==
    /\ endpoint = "/paraphrase"
    /\ pipe_pc = "paraphrase"
    /\ use_mock_llm
    /\ paraphrased_xml' = mock_paraphrase(raw_xml)
    /\ pipe_pc' = "respond"
    /\ PipeFrame
    /\ UNCHANGED <<raw_xml, llm_provider, llm_error, llm_calls, pipe_log, resp>>
    /\ UNCHANGED <<xml_vars, esc_vars, ocr_vars>>

\* paraphrase_only returns original_xml, paraphrased_xml, success; the
\* result goes into the dict as it is, None included
ParaphraseRespond ==
    /\ endpoint = "/paraphrase"
    /\ pipe_pc = "respond"
    /\ resp' = Response(200, TRUE, <<>>, raw_xml, paraphrased_xml, "", "")
    /\ pipe_pc' = "done"
    /\ PipeFrame
    /\ UNCHANGED <<raw_xml, paraphrased_xml, llm_provider, llm_error, llm_calls,
                   pipe_log>>
    /\ UNCHANGED <<xml_vars, esc_vars, ocr_vars>>

\* except Exception in paraphrase_only: HTTPException(500, str(e))
ParaphraseRaised ==
    /\ endpoint = "/paraphrase"
    /\ pipe_pc = "llm_except"
    /\ resp' = HttpError(500, llm_error)
    /\ pipe_pc' = "done"
    /\ PipeFrame
    /\ UNCHANGED <<raw_xml, paraphrased_xml, llm_provider, llm_error, llm_calls,
                   pipe_log>>
    /\ UNCHANGED <<xml_vars, esc_vars, ocr_vars>>

PipeIdle ==
    /\ endpoint = ""
    /\ api_keys = {}
    /\ content_type = ""
    /\ file_size = 0
    /\ use_mock_llm = FALSE
    /\ llm_provider_arg = ""
    /\ pipe_pc = "idle"
    /\ raw_xml = <<>>
    /\ paraphrased_xml = <<>>
    /\ llm_provider = ""
    /\ llm_error = ""
    /\ llm_calls = <<>>
    /\ pipe_log = 0
    /\ resp = NoResponse

(***************************************************************************)
(* Spec: one request to POST /ocr.                                         *)
(***************************************************************************)
Init ==
    /\ XmlIdle
    /\ EscIdle
    /\ endpoint = "/ocr"
    /\ api_keys \in SUBSET ConfigLlmProviders
    /\ content_type \in {"image/png", "text/plain"}
    /\ file_size \in {1024, MAX_FILE_SIZE + 1}
    /\ image \in Images
    /\ provider_arg \in ProviderArgs
    /\ mode_arg = ""
    /\ use_mock_llm \in BOOLEAN
    /\ llm_provider_arg \in LlmProviderArgs
    /\ ocr_provider = ""
    /\ ocr_mode = ""
    /\ ocr_pc = "idle"
    /\ ocr_text = <<>>
    /\ ocr_label = ""
    /\ ocr_error = ""
    /\ ocr_calls = <<>>
    /\ ocr_log = 0
    /\ model_cache \in BOOLEAN
    /\ pipe_pc = "start"
    /\ raw_xml = <<>>
    /\ paraphrased_xml = <<>>
    /\ llm_provider = ""
    /\ llm_error = ""
    /\ llm_calls = <<>>
    /\ pipe_log = 0
    /\ resp = NoResponse

Next ==
    \/ PipeRejectType
    \/ PipeRejectSize
    \/ PipeCallOcr
    \/ OcrEnter
    \/ OcrDeepseekLocal
    \/ OcrDeepseekVllm
    \/ OcrDeepseekClarifai
    \/ OcrUnknownMode
    \/ OcrTesseract
    \/ OcrMock
    \/ OcrUnknownProvider
    \/ OcrFallback
    \/ PipeOcrRaised
    \/ PipeNoText
    \/ PipeStructure
    \/ PipeParaphraseMock
    \/ LlmEnter
    \/ LlmOpenAI
    \/ LlmOpenAIAnswer
    \/ LlmAnthropic
    \/ LlmAnthropicAnswer
    \/ LlmUnknownProvider
    \/ PipeLlmFallback
    \/ PipeResponseInvalid
    \/ PipeRespond

Spec == Init /\ [][Next]_vars

(***************************************************************************)
(* SpecParaphrase: one request to POST /paraphrase.                        *)
(***************************************************************************)
\* pieces of markup the request's xml_content is made of
ParaPool ==
    { <<60, 97, 62, 120, 60, 47, 97, 62>>,            \* "<a>x</a>"
      <<60, 97, 62, 120, 60, 47, 98, 62>>,            \* "<a>x</b>"
      <<60, 97, 32, 107, 61, 34, 47, 34, 62, 121, 60, 47, 97, 62>>,
                                                      \* "<a k="/">y</a>"
      <<60, 97, 32, 107, 61, 34, 118, 34, 62, 120, 62, 121, 60, 47, 97, 62>>,
                                                      \* "<a k="v">x>y</a>"
      <<60, 63, 113, 62, 120, 60, 47, 63, 113, 62>>,  \* "<?q>x</?q>"
      <<60, 97, 62, 32, 10, 60, 47, 97, 62>>,         \* "<a>", " ", NL, "</a>"
      <<60, 97, 62, 60, 47, 97, 62>>,                 \* "<a></a>"
      <<60, 114, 62>>,                                \* "<r>"
      <<60, 47, 114, 62>>,                            \* "</r>"
      <<116, 32>> }                                   \* "t "

\* the pieces written one after the other
RECURSIVE concat(_)
concat(parts) ==
    IF parts = <<>> THEN <<>> ELSE Head(parts) \o concat(Tail(parts))

\* the documents of at most MaxPieces pieces from ParaPool
ParaInputs ==
    { concat(f) : f \in UNION { [1..n -> ParaPool] : n \in 0..MaxPieces } }

InitParaphrase ==
    /\ XmlIdle
    /\ EscIdle
    /\ OcrIdle
    /\ endpoint = "/paraphrase"
    /\ api_keys \in SUBSET ConfigLlmProviders
    /\ content_type = ""
    /\ file_size = 0
    /\ use_mock_llm \in BOOLEAN
    /\ llm_provider_arg \in LlmProviderArgs
    /\ pipe_pc = "paraphrase"
    /\ raw_xml \in ParaInputs
    /\ paraphrased_xml = <<>>
    /\ llm_provider = ""
    /\ llm_error = ""
    /\ llm_calls = <<>>
    /\ pipe_log = 0
    /\ resp = NoResponse

NextParaphrase ==
    \/ ParaphraseMock
    \/ LlmEnter
    \/ LlmOpenAI
    \/ LlmOpenAIAnswer
    \/ LlmAnthropic
    \/ LlmAnthropicAnswer
    \/ LlmUnknownProvider
    \/ ParaphraseRaised
    \/ ParaphraseRespond

SpecParaphrase == InitParaphrase /\ [][NextParaphrase]_vars

(***************************************************************************)
(* SpecMockPipeline: steps 2 and 3 of process_ocr with use_mock_llm set,   *)
(* from the point where the OCR stage has returned a text.                 *)
(***************************************************************************)
InitMockPipeline ==
    /\ XmlIdle
    /\ EscIdle
    /\ endpoint = "/ocr"
    /\ api_keys = {}
    /\ content_type = "image/png"
    /\ file_size = 1024
    /\ image = "RGB"
    /\ provider_arg = "tesseract"
    /\ mode_arg = ""
    /\ use_mock_llm = TRUE
    /\ llm_provider_arg = ""
    /\ ocr_provider = "tesseract"
    /\ ocr_mode = "local"
    /\ ocr_pc = "returned"
    /\ ocr_text \in XmlInputs
    /\ ocr_label = "tesseract"
    /\ ocr_error = ""
    /\ ocr_calls = <<"ocr_with_tesseract">>
    /\ ocr_log = 0
    /\ model_cache = FALSE
    /\ pipe_pc = "ocr"
    /\ raw_xml = <<>>
    /\ paraphrased_xml = <<>>
    /\ llm_provider = ""
    /\ llm_error = ""
    /\ llm_calls = <<>>
    /\ pipe_log = 0
    /\ resp = NoResponse

NextMockPipeline ==
    \/ PipeNoText
    \/ PipeStructure
    \/ PipeParaphraseMock
    \/ PipeRespond

SpecMockPipeline == InitMockPipeline /\ [][NextMockPipeline]_vars

(***************************************************************************)
(* SpecXml: one call of text_to_xml, as POST /text-to-xml makes it.        *)
(***************************************************************************)
InitXml ==
    /\ text \in XmlInputs
    /\ lines = <<>>
    /\ idx = 0
    /\ xml_parts = <<>>
    /\ current_section = <<>>
    /\ section_content = <<>>
    /\ xml_pc = "start"
    /\ xml_result = <<>>
    /\ origin = <<>>
    /\ cur_line = 0
    /\ content_lines = <<>>
    /\ EscIdle
    /\ OcrIdle
    /\ PipeIdle

NextXml ==
    \/ XmlStart
    \/ XmlSectionHeader
    \/ XmlField
    \/ XmlBody
    \/ XmlHeader
    \/ XmlDiscard
    \/ XmlFinish

SpecXml == InitXml /\ [][NextXml]_vars

(***************************************************************************)
(* SpecEscape: escape_xml on two strings.                                  *)
(***************************************************************************)
InitEscape ==
    /\ esc_a \in EscInputs
    /\ esc_b \in EscPool
    /\ esc_ra = <<>>
    /\ esc_rb = <<>>
    /\ esc_pc = "start"
    /\ XmlIdle
    /\ OcrIdle
    /\ PipeIdle

NextEscape == EscapeCall

SpecEscape == InitEscape /\ [][NextEscape]_vars

(***************************************************************************)
(* Properties of the dispatcher, checked under Spec.                       *)
(***************************************************************************)
\* exceptions raised inside the try block of extract_text_from_image
StrategyErrors ==
    LocalErrors \cup VllmErrors \cup ClarifaiErrors \cup TesseractErrors
        \cup {"missing_credential"}
DispatchErrors == StrategyErrors \cup {"unknown_provider", "unknown_mode"}

\* C1: when the provider identifier or the DeepSeek mode is unknown, or the
\* chosen strategy raises, the call does not raise: it returns exactly the
\* text of mock_ocr with the label "mock (fallback)", and the label "mock" is
\* returned only for a direct mock request that did not fail.
C1_FallbackOnFailure ==
    /\ (ocr_pc = "returned" /\ ocr_error \in DispatchErrors)
            => (ocr_text = mock_ocr /\ ocr_label = "mock (fallback)")
    /\ ocr_pc = "raised" => ocr_error \notin DispatchErrors
    /\ ocr_pc = "except" => (ocr_error \in DispatchErrors /\ ENABLED OcrFallback)
    /\ (ocr_pc = "returned" /\ ocr_label = "mock")
            => (ocr_provider = "mock" /\ ocr_error = "")

\* C1 witness: a request for provider "bogus" has come back with the mock
\* text after the unknown-provider error
C1_Witness ==
    /\ ocr_pc = "returned"
    /\ provider_arg = "bogus"
    /\ ocr_error = "unknown_provider"
    /\ ocr_text = mock_ocr
    /\ ocr_label = "mock (fallback)"

\* C2: no error arising during a call of extract_text_from_image leaves it,
\* so /ocr never answers 500 because of the OCR stage: a 500 comes only
\* after the OCR stage has returned.
C2_ErrorsNeverEscape ==
    /\ ocr_pc # "raised"
    /\ resp.status = 500 => ocr_pc = "returned"

\* C3: when the returned text was produced by mock_ocr although another
\* provider was requested, the label is the fallback label.
C3_LabelReflectsProducer ==
    (/\ ocr_pc = "returned"
     /\ ocr_calls # <<>>
     /\ ocr_calls[Len(ocr_calls)] = "mock_ocr"
     /\ ocr_provider # "mock")
        => ocr_label = "mock (fallback)"

\* C4: a request for one of the documented providers "replicate", "clarifai"
\* and "mock", none of whose strategy calls raised, returns under a label
\* that names the provider, not under the fallback label.
C4_DocumentedProviders ==
    (/\ ocr_pc = "returned"
     /\ provider_arg \in {"replicate", "clarifai", "mock"}
     /\ ocr_error \notin StrategyErrors)
        => (/\ ocr_label # "mock (fallback)"
            /\ provider_arg = "mock" => ocr_label = "mock")

(***************************************************************************)
(* Reading the output of text_to_xml back.                                 *)
(***************************************************************************)
IsPrefix(p, s) == Len(s) >= Len(p) /\ SubSeq(s, 1, Len(p)) = p

\* the kind of element an output line holds
Kind(part) ==
    IF IsPrefix(ParaPre, part) THEN "paragraph"
    ELSE IF IsPrefix(SecOpenPre, part) THEN "section"
    ELSE IF part = SecClose THEN "section_end"
    ELSE IF IsPrefix(FieldPre, part) THEN "field"
    ELSE IF IsPrefix(HeaderPre, part) THEN "header"
    ELSE "other"

Reserved == {AMP, LT, GT, QUOT, APOS}
Entities == {EntAmp, EntLt, EntGt, EntQuot, EntApos}

Entity(c) ==
    IF c = AMP THEN EntAmp
    ELSE IF c = LT THEN EntLt
    ELSE IF c = GT THEN EntGt
    ELSE IF c = QUOT THEN EntQuot
    ELSE IF c = APOS THEN EntApos
    ELSE <<c>>

\* every character replaced by its entity, one character at a time
RECURSIVE CharwiseEscape(_)
CharwiseEscape(s) ==
    IF s = <<>> THEN <<>> ELSE Entity(Head(s)) \o CharwiseEscape(Tail(s))

\* no reserved character of s stands outside an entity
Safe(s) ==
    \A i \in 1..Len(s) :
        /\ s[i] \notin {LT, GT, QUOT, APOS}
        /\ s[i] = AMP => \E e \in Entities : IsPrefix(e, SubSeq(s, i, Len(s)))

\* the text an XML reader gets from s: every entity decoded once
RECURSIVE Unescape(_)
Unescape(s) ==
    IF s = <<>> THEN <<>>
    ELSE IF \E c \in Reserved : IsPrefix(Entity(c), s)
    THEN LET c == CHOOSE c \in Reserved : IsPrefix(Entity(c), s)
         IN  <<c>> \o Unescape(SubSeq(s, Len(Entity(c)) + 1, Len(s)))
    ELSE <<Head(s)>> \o Unescape(Tail(s))

\* the attribute value of an element line that starts with pre
AttrValue(part, pre) ==
    LET rest == SubSeq(part, Len(pre) + 1, Len(part))
    IN  SubSeq(rest, 1, IndexOf(rest, QUOT) - 1)

\* the positions of the element lines, between <document> and </document>
Elements == 3..(Len(xml_parts) - 1)
TopLevel == {p \in Elements : Kind(xml_parts[p]) \in {"field", "header", "section"}}
Paragraphs == {p \in Elements : Kind(xml_parts[p]) = "paragraph"}

\* sections open after output line p
Depth(p) ==
    Cardinality({r \in 3..p : Kind(xml_parts[r]) = "section"})
        - Cardinality({r \in 3..p : xml_parts[r] = SecClose})

\* the line that opens the section a paragraph at p lies in
SectionOf(p) ==
    CHOOSE r \in 3..p :
        /\ Kind(xml_parts[r]) = "section"
        /\ \A q \in (r + 1)..p : Kind(xml_parts[q]) # "section"

NoHeaderBetween(a, b) == \A j \in (a + 1)..b : ~IsSectionHeader(lines[j])

\* a line that is neither a section header nor a field
OtherLine(line) == ~IsSectionHeader(line) /\ ~IsFieldLine(line)

(***************************************************************************)
(* Properties of text_to_xml, checked under SpecXml.                       *)
(***************************************************************************)
HeadersUpTo(i) == Cardinality({j \in 1..i : IsSectionHeader(lines[j])})

\* where the output line written for lines[i] stands when the input has
\* only section headers and body lines
Pos(i) == 1 + i + HeadersUpTo(i)

OnlySectionsAndBodies ==
    /\ lines # <<>>
    /\ IsSectionHeader(lines[1])
    /\ \A i \in 1..Len(lines) : ~IsFieldLine(lines[i])

\* C5: for an input of section-header lines and body lines that starts with
\* a header, the output has one section per header line, in header order,
\* each closed before the next opens, holding as paragraphs exactly the body
\* lines up to the next header, in order; a header without body lines yields
\* a section without paragraphs.
C5_SectionPerHeader ==
    (xml_pc = "done" /\ OnlySectionsAndBodies) =>
        /\ Len(xml_parts) = Len(lines) + HeadersUpTo(Len(lines)) + 3
        /\ xml_parts[Len(xml_parts) - 1] = SecClose
        /\ \A i \in 1..Len(lines) :
            IF IsSectionHeader(lines[i])
            THEN /\ xml_parts[Pos(i)] = SecOpenPre \o escape_xml(clean_title(lines[i]))
                                            \o AttrEnd
                 /\ i > 1 => xml_parts[Pos(i) - 1] = SecClose
            ELSE xml_parts[Pos(i)] = ParaPre \o escape_xml(lines[i]) \o ParaPost
        /\ \A p \in Elements : Depth(p) \in {0, 1}

\* C5 witness: two headers, the first without body lines, the second with one
C5_Witness ==
    /\ xml_pc = "done"
    /\ OnlySectionsAndBodies
    /\ Len(lines) = 3
    /\ IsSectionHeader(lines[2])
    /\ ~IsSectionHeader(lines[3])
    /\ Kind(xml_parts[4]) = "section_end"
    /\ Kind(xml_parts[6]) = "paragraph"

\* C6: a field line is written at once as a field element whose name is the
\* trimmed text before the first ':' and whose content is the trimmed text
\* after it, with or without an open section; the open section's title and
\* buffered paragraphs stay as they are, and a body line read right after it
\* is appended to the same section.
C6_FieldLineStep ==
    [][/\ (AtLine /\ IsFieldLine(lines[idx])) =>
            \E k \in 1..Len(lines[idx]) :
                /\ lines[idx][k] = COLON
                /\ \A j \in 1..(k - 1) : lines[idx][j] # COLON
                /\ xml_parts' =
                     Append(xml_parts,
                            FieldPre \o escape_xml(strip(SubSeq(lines[idx], 1, k - 1)))
                                \o AttrEnd
                                \o escape_xml(strip(SubSeq(lines[idx], k + 1,
                                                           Len(lines[idx]))))
                                \o FieldPost)
                /\ current_section' = current_section
                /\ section_content' = section_content
       /\ (/\ AtLine /\ idx > 1
           /\ IsFieldLine(lines[idx - 1])
           /\ OtherLine(lines[idx])
           /\ Truthy(current_section)) =>
                /\ section_content' = Append(section_content, lines[idx])
                /\ current_section' = current_section
                /\ xml_parts' = xml_parts
      ]_vars

\* C6 witness: a field line was read while a section with a buffered
\* paragraph was open
C6_Witness ==
    /\ xml_pc = "loop"
    /\ idx = 4
    /\ IsSectionHeader(lines[1])
    /\ OtherLine(lines[2])
    /\ IsFieldLine(lines[3])
    /\ section_content = <<lines[2]>>
    /\ Kind(xml_parts[Len(xml_parts)]) = "field"

\* every element line carries the text of the line it was written for
OriginSound ==
    /\ Len(origin) = Len(xml_parts)
    /\ \A p \in Elements :
        /\ Kind(xml_parts[p]) # "other"
        /\ origin[p] \in 1..Len(lines)
        /\ Kind(xml_parts[p]) = "field" => xml_parts[p] = FieldElem(lines[origin[p]])
        /\ Kind(xml_parts[p]) = "header" => xml_parts[p] = HeaderElem(lines[origin[p]])
        /\ Kind(xml_parts[p]) = "section"
                => xml_parts[p] = SectionOpen(clean_title(lines[origin[p]]))
        /\ Kind(xml_parts[p]) = "paragraph"
                => xml_parts[p] = ParagraphElem(lines[origin[p]])

ParagraphOrder ==
    \A p, q \in Paragraphs :
        (p < q /\ SectionOf(p) = SectionOf(q)) => origin[p] < origin[q]

\* C7: the field, header and section elements stand in the order of the
\* input lines that introduced them, and the paragraphs of a section in the
\* order their lines were read.
C7_LineOrder ==
    xml_pc = "done" =>
        /\ OriginSound
        /\ \A p, q \in TopLevel : p < q => origin[p] < origin[q]
        /\ ParagraphOrder

\* C7 as amended: the field and header elements stand in the order of their
\* lines and so do the section elements, but a section element is written
\* when the section is closed: it stands after the field elements of the
\* field lines read while it was open, and before every element of a later
\* line; the paragraphs of a section stand in the order their lines were read.
C7_EmissionOrder ==
    xml_pc = "done" =>
        /\ OriginSound
        /\ \A p, q \in TopLevel :
            p < q =>
                \/ origin[p] < origin[q]
                \/ /\ Kind(xml_parts[p]) = "field"
                   /\ Kind(xml_parts[q]) = "section"
                   /\ origin[q] < origin[p]
                   /\ NoHeaderBetween(origin[q], origin[p])
        /\ \A p, q \in TopLevel :
            (/\ Kind(xml_parts[p]) = "field"
             /\ Kind(xml_parts[q]) = "section"
             /\ origin[q] < origin[p]
             /\ NoHeaderBetween(origin[q], origin[p])) => p < q
        /\ ParagraphOrder

\* C7 witness: a field element stands before the section whose header was
\* read before the field line
C7_Witness ==
    /\ xml_pc = "done"
    /\ \E p, q \in TopLevel :
        /\ p < q
        /\ Kind(xml_parts[p]) = "field"
        /\ Kind(xml_parts[q]) = "section"
        /\ origin[q] < origin[p]
    /\ Paragraphs # {}

\* an element line is the markup of its kind around the once-escaped text
WellFormedElement(p) ==
    LET part == xml_parts[p]
        line == lines[origin[p]]
        kind == Kind(part)
    IN  IF kind = "field"
        THEN LET a == AttrValue(part, FieldPre)
                 b == SubSeq(part, Len(FieldPre) + Len(a) + Len(AttrEnd) + 1,
                             Len(part) - Len(FieldPost))
             IN  /\ part = FieldPre \o a \o AttrEnd \o b \o FieldPost
                 /\ Safe(a) /\ Unescape(a) = strip(FieldKey(line))
                 /\ Safe(b) /\ Unescape(b) = strip(FieldValue(line))
                 /\ Depth(p) = 0
        ELSE IF kind = "header"
        THEN LET b == SubSeq(part, Len(HeaderPre) + 1, Len(part) - Len(HeaderPost))
             IN  /\ part = HeaderPre \o b \o HeaderPost
                 /\ Safe(b) /\ Unescape(b) = line
                 /\ Depth(p) = 0
        ELSE IF kind = "section"
        THEN LET a == AttrValue(part, SecOpenPre)
             IN  /\ part = SecOpenPre \o a \o AttrEnd
                 /\ Safe(a) /\ Unescape(a) = clean_title(line)
                 /\ Depth(p) = 1 /\ Depth(p - 1) = 0
        ELSE IF kind = "paragraph"
        THEN LET b == SubSeq(part, Len(ParaPre) + 1, Len(part) - Len(ParaPost))
             IN  /\ part = ParaPre \o b \o ParaPost
                 /\ Safe(b) /\ Unescape(b) = line
                 /\ Depth(p) = 1
        ELSE kind = "section_end" /\ Depth(p) = 0 /\ Depth(p - 1) = 1

\* C8: the result is the XML declaration, <document>, then field, header
\* and section elements with paragraphs only inside a section and every
\* section closed, then </document>; every name, title and content is the
\* source text escaped exactly once, no reserved character outside an entity.
C8_WellFormed ==
    xml_pc = "done" =>
        /\ Len(xml_parts) >= 3
        /\ Len(origin) = Len(xml_parts)
        /\ xml_parts[1] = XmlDecl
        /\ xml_parts[2] = DocOpen
        /\ xml_parts[Len(xml_parts)] = DocClose
        /\ \A p \in Elements :
            /\ origin[p] \in 1..Len(lines)
            /\ WellFormedElement(p)
        /\ Depth(Len(xml_parts) - 1) = 0
        /\ \A p \in 1..Len(xml_parts) : ~Contains(xml_parts[p], NL)
        /\ xml_result = join(xml_parts, NL)
        /\ split(xml_result, NL) = xml_parts

\* C8 witness: a text with all five reserved characters came out as a
\* section with a paragraph and a field
C8_Witness ==
    /\ xml_pc = "done"
    /\ \A c \in Reserved : Contains(text, c)
    /\ \E p \in Elements : Kind(xml_parts[p]) = "field"
    /\ \E p \in Elements : Kind(xml_parts[p]) = "paragraph"

\* a markdown heading prefix: n '#' characters and a whitespace character
HashRun(line, n) ==
    /\ n >= 1 /\ Len(line) > n
    /\ \A k \in 1..n : line[k] = HASH
    /\ IsSpace(line[n + 1])

MarkdownHeading(line) == \E n \in 1..Len(line) : HashRun(line, n)

\* the line without its '#' run and the whitespace after it
HeadingTitle(line) ==
    LET n == CHOOSE n \in 1..Len(line) : HashRun(line, n)
    IN  LStrip(SubSeq(line, n + 1, Len(line)))

\* C10: a line that starts with one or more '#' and whitespace opens a
\* section titled with the rest of the line, whatever the length of the '#'
\* run; a line that starts with a section word, in any letter case, opens a
\* section titled with the line itself.
C10_HeadingOpensSection ==
    (xml_pc \in {"loop", "done"} /\ idx > 1) =>
        LET line == lines[idx - 1]
        IN  /\ MarkdownHeading(line) =>
                (/\ cur_line = idx - 1
                 /\ current_section = HeadingTitle(line)
                 /\ section_content = <<>>)
            /\ (\E w \in SectionWords : StartsWithCI(line, w)) =>
                (/\ cur_line = idx - 1
                 /\ current_section = line
                 /\ section_content = <<>>)

\* C15: a line that is neither a section header nor a field is appended to
\* the paragraphs of the open section, whatever its characters; with no
\* section open it is written as a header element when it has an
\* alphanumeric character, and otherwise dropped: nothing is written and
\* the loop's variables stay as they are.
C15_OtherLineStep ==
    [][(AtLine /\ OtherLine(lines[idx])) =>
          /\ idx' = idx + 1
          /\ current_section' = current_section
          /\ IF current_section # <<>>
             THEN /\ section_content' = Append(section_content, lines[idx])
                  /\ xml_parts' = xml_parts
             ELSE IF \E k \in 1..Len(lines[idx]) : IsAlnum(lines[idx][k])
             THEN /\ xml_parts' = Append(xml_parts, HeaderPre \o escape_xml(lines[idx])
                                                       \o HeaderPost)
                  /\ section_content' = section_content
             ELSE /\ xml_parts' = xml_parts
                  /\ section_content' = section_content
      ]_vars

\* C15 witness: a punctuation-only line was dropped before the first header
\* and a punctuation-only line is a paragraph of the section
C15_Witness ==
    /\ xml_pc = "done"
    /\ Len(lines) = 3
    /\ OtherLine(lines[1]) /\ ~HasAlnum(lines[1])
    /\ IsSectionHeader(lines[2])
    /\ OtherLine(lines[3]) /\ ~HasAlnum(lines[3])
    /\ Len(xml_parts) = 6
    /\ xml_parts[4] = ParagraphElem(lines[3])

\* a section-header line has been read
HeaderSeen == xml_pc = "loop" /\ \E j \in 1..(idx - 1) : IsSectionHeader(lines[j])

\* the first section-header line, Len(lines) + 1 when there is none
FirstHeaderLine ==
    IF \E j \in 1..Len(lines) : IsSectionHeader(lines[j])
    THEN CHOOSE j \in 1..Len(lines) :
            /\ IsSectionHeader(lines[j])
            /\ \A i \in 1..(j - 1) : ~IsSectionHeader(lines[i])
    ELSE Len(lines) + 1

\* C17: once a section-header line has been read a section is open at every
\* later line, so a line that is neither header nor field is buffered,
\* never written as a header element or dropped; in the output every header
\* element stands before every section element and comes from a line before
\* the first section-header line.
C17_SectionStaysOpen ==
    /\ [](HeaderSeen => current_section # <<>>)
    /\ [][(HeaderSeen /\ AtLine /\ OtherLine(lines[idx])) =>
              /\ xml_parts' = xml_parts
              /\ section_content' = Append(section_content, lines[idx])
              /\ current_section' = current_section]_vars
    /\ [](xml_pc = "done" =>
              /\ \A p, q \in Elements :
                    (Kind(xml_parts[p]) = "header" /\ Kind(xml_parts[q]) = "section")
                        => p < q
              /\ \A p \in Elements :
                    Kind(xml_parts[p]) = "header" => origin[p] < FirstHeaderLine
              /\ Cardinality({p \in Elements : Kind(xml_parts[p]) = "section"})
                    = Cardinality({j \in 1..Len(lines) : IsSectionHeader(lines[j])}))

\* C17 witness: the same line is a header element before the section header
\* and a paragraph after it
C17_Witness ==
    /\ xml_pc = "done"
    /\ Len(lines) = 3
    /\ lines[1] = lines[3]
    /\ OtherLine(lines[1]) /\ HasAlnum(lines[1])
    /\ IsSectionHeader(lines[2])
    /\ xml_parts[3] = HeaderElem(lines[1])
    /\ Kind(xml_parts[4]) = "section"
    /\ xml_parts[5] = ParagraphElem(lines[3])

\* a line the field branch takes
FieldLineAt(i) == ~IsSectionHeader(lines[i]) /\ IsFieldLine(lines[i])

\* the header line of the section open when lines[i] is read, 0 if none
OpenHeader(i) ==
    IF \E h \in 1..(i - 1) : IsSectionHeader(lines[h])
    THEN CHOOSE h \in 1..(i - 1) :
            IsSectionHeader(lines[h]) /\ NoHeaderBetween(h, i - 1)
    ELSE 0

\* the last line of the section whose header is lines[h]
SectionEnd(h) ==
    IF \E n \in (h + 1)..Len(lines) : IsSectionHeader(lines[n])
    THEN (CHOOSE n \in (h + 1)..Len(lines) :
            IsSectionHeader(lines[n]) /\ NoHeaderBetween(h, n - 1)) - 1
    ELSE Len(lines)

\* C18: a field line read while a section is open gives a top-level field
\* element that stands before the element of that section, and no paragraph
\* of that section holds the field line's text; a section all of whose
\* lines are field lines is written with no paragraph.
C18_FieldBeforeOpenSection ==
    xml_pc = "done" =>
        /\ OriginSound
        /\ \A i \in 1..Len(lines) :
            (FieldLineAt(i) /\ OpenHeader(i) # 0) =>
                \E p, q \in Elements :
                    /\ origin[p] = i /\ origin[q] = OpenHeader(i)
                    /\ Kind(xml_parts[p]) = "field" /\ Depth(p) = 0
                    /\ Kind(xml_parts[q]) = "section"
                    /\ p < q
                    /\ \A r \in Paragraphs :
                          SectionOf(r) = q =>
                              /\ xml_parts[r] # ParagraphElem(lines[i])
                              /\ origin[r] # i
        /\ \A h \in 1..Len(lines) :
            (/\ IsSectionHeader(lines[h])
             /\ \A i \in (h + 1)..SectionEnd(h) : FieldLineAt(i)) =>
                \E q \in Elements :
                    /\ origin[q] = h
                    /\ Kind(xml_parts[q]) = "section"
                    /\ xml_parts[q + 1] = SecClose

\* C18 witness: a section whose two lines are field lines: both field
\* elements stand before the section element, which has no paragraph
C18_Witness ==
    /\ xml_pc = "done"
    /\ Len(lines) = 3
    /\ IsSectionHeader(lines[1])
    /\ FieldLineAt(2) /\ FieldLineAt(3)
    /\ xml_parts[3] = FieldElem(lines[2])
    /\ xml_parts[4] = FieldElem(lines[3])
    /\ xml_parts[5] = SectionOpen(clean_title(lines[1]))
    /\ xml_parts[6] = SecClose
    /\ Len(xml_parts) = 7

(***************************************************************************)
(* Properties of escape_xml, checked under SpecEscape.                     *)
(***************************************************************************)
\* C9: escape_xml leaves a string without reserved characters unchanged,
\* replaces each reserved character by its entity exactly once, never
\* escaping the '&' of an entity it wrote, and is injective.
C9_EscapeXml ==
    esc_pc = "done" =>
        /\ (\A i \in 1..Len(esc_a) : esc_a[i] \notin Reserved) => esc_ra = esc_a
        /\ esc_ra = CharwiseEscape(esc_a)
        /\ esc_rb = CharwiseEscape(esc_b)
        /\ Safe(esc_ra)
        /\ Unescape(esc_ra) = esc_a
        /\ esc_a # esc_b => esc_ra # esc_rb

\* C9 witness: "&<" and "&amp;", the second being what escaping "&" gives,
\* have been escaped
C9_Witness ==
    /\ esc_pc = "done"
    /\ esc_a = <<AMP, LT>>
    /\ esc_b = EntAmp
    /\ esc_ra = EntAmp \o EntLt
    /\ esc_rb = EntAmp \o SubSeq(EntAmp, 2, 5)

(***************************************************************************)
(* Reading markup the way mock_paraphrase is described.                    *)
(***************************************************************************)
\* least position >= from of s holding a character of cs, Len(s) + 1 if none
FirstOf(s, from, cs) ==
    IF \E p \in from..Len(s) : s[p] \in cs
    THEN CHOOSE p \in from..Len(s) :
            s[p] \in cs /\ \A q \in from..(p - 1) : s[q] \notin cs
    ELSE Len(s) + 1

\* the text '<' T '>' C '</' U '>' starts at i: T is one or more characters
\* other than '/' and '>', C one or more other than '<', U one or more
\* other than '>'
OpenEnd(s, i) == FirstOf(s, i + 1, {SLASH, GT})
CloseStart(s, i) == FirstOf(s, OpenEnd(s, i) + 1, {LT})
CloseEnd(s, i) == FirstOf(s, CloseStart(s, i) + 2, {GT})
OccursAt(s, i) ==
    /\ i \in 1..Len(s) /\ s[i] = LT
    /\ OpenEnd(s, i) > i + 1 /\ OpenEnd(s, i) <= Len(s)
    /\ s[OpenEnd(s, i)] = GT
    /\ CloseStart(s, i) > OpenEnd(s, i) + 1 /\ CloseStart(s, i) < Len(s)
    /\ s[CloseStart(s, i) + 1] = SLASH
    /\ CloseEnd(s, i) > CloseStart(s, i) + 2 /\ CloseEnd(s, i) <= Len(s)

\* the occurrences a left-to-right scan keeps: none starts inside another
RECURSIVE Occurrences(_, _)
Occurrences(s, i) ==
    IF i > Len(s) THEN {}
    ELSE IF OccursAt(s, i)
         THEN {i} \cup Occurrences(s, CloseEnd(s, i) + 1)
         ELSE Occurrences(s, i + 1)

OpenTag(s, i) == SubSeq(s, i + 1, OpenEnd(s, i) - 1)
Content(s, i) == SubSeq(s, OpenEnd(s, i) + 1, CloseStart(s, i) - 1)
CloseTag(s, i) == SubSeq(s, CloseStart(s, i) + 2, CloseEnd(s, i) - 1)
Blank(c) == \A p \in 1..Len(c) : IsSpace(c[p])

\* the name of the element an opening tag opens: the tag up to its first
\* white space
ElementName(tag) == SubSeq(tag, 1, FirstOf(tag, 1, Whitespace) - 1)

\* s with the marker written after each position of set at
RECURSIVE MarkedFrom(_, _, _)
MarkedFrom(s, at, p) ==
    IF p > Len(s) THEN <<>>
    ELSE <<s[p]>> \o (IF p \in at THEN ParaphraseMarker ELSE <<>>)
             \o MarkedFrom(s, at, p + 1)

\* where the marker goes: after the '>' of the opening tag of every kept
\* occurrence whose tag does not start with '?' and whose content is not blank
MarkedOccurrences(s) ==
    { OpenEnd(s, i) : i \in { o \in Occurrences(s, 1) :
                                /\ OpenTag(s, o)[1] # QMARK
                                /\ ~Blank(Content(s, o)) } }

\* where the marker goes when only pairs of matching tags count: an opening
\* tag '<' T '>' (T without '<', not a closing tag, not a declaration, not
\* self-closing), content without '<' that is not blank, and a closing tag
\* naming the element T opens
MatchingPairAt(s, i) ==
    LET j == FirstOf(s, i + 1, {GT})
        k == FirstOf(s, j + 1, {LT})
        m == FirstOf(s, k + 1, {GT})
        tag == SubSeq(s, i + 1, j - 1)
    IN  /\ i \in 1..Len(s) /\ s[i] = LT
        /\ j <= Len(s) /\ j > i + 1
        /\ \A p \in 1..Len(tag) : tag[p] # LT
        /\ tag[1] \notin {SLASH, QMARK} /\ tag[Len(tag)] # SLASH
        /\ k > j + 1 /\ k < Len(s) /\ s[k + 1] = SLASH
        /\ ~Blank(SubSeq(s, j + 1, k - 1))
        /\ m <= Len(s)
        /\ SubSeq(s, k + 2, m - 1) = ElementName(tag)

MarkedPairs(s) ==
    { FirstOf(s, i + 1, {GT}) : i \in { o \in 1..Len(s) : MatchingPairAt(s, o) } }

\* the mock paraphraser has answered a request to POST /paraphrase
MockAnswered ==
    endpoint = "/paraphrase" /\ use_mock_llm /\ pipe_pc \in {"respond", "done"}

(***************************************************************************)
(* Properties of mock_paraphrase and of paraphrase_only, checked under     *)
(* SpecParaphrase.                                                         *)
(***************************************************************************)
\* C11 as stated: mock_paraphrase writes the marker at the start of the
\* content of every pair of matching open and close tags (the closing tag
\* naming the element of the opening tag) with non-blank content free of
\* '<', the declaration excepted, and changes nothing else.
C11_MatchingPairs ==
    MockAnswered => paraphrased_xml = MarkedFrom(raw_xml, MarkedPairs(raw_xml), 1)

\* C11 amended: mock_paraphrase writes the marker at the start of the
\* content of every occurrence, found scanning left to right without
\* overlap, of '<' T '>' C '</' U '>' (T without '/' and '>', C without '<',
\* U without '>', all non-empty, U not compared with T) whose T does not
\* start with '?' and whose C is not blank; T, U and all other text are
\* unchanged.
C11_PatternOccurrences ==
    MockAnswered =>
        /\ paraphrased_xml = MarkedFrom(raw_xml, MarkedOccurrences(raw_xml), 1)
        /\ Len(paraphrased_xml) = Len(raw_xml)
               + Len(ParaphraseMarker) * Cardinality(MarkedOccurrences(raw_xml))

\* a document with a rewritten pair whose closing tag names another element,
\* and an occurrence left as it is
C11_Witness ==
    /\ MockAnswered /\ pipe_pc = "done" /\ resp.status = 200
    /\ \E i \in Occurrences(raw_xml, 1) :
          /\ OpenEnd(raw_xml, i) \in MarkedOccurrences(raw_xml)
          /\ CloseTag(raw_xml, i) # ElementName(OpenTag(raw_xml, i))
    /\ \E i \in Occurrences(raw_xml, 1) :
          OpenEnd(raw_xml, i) \notin MarkedOccurrences(raw_xml)
    /\ resp.paraphrased_xml # raw_xml

\* paraphrase_xml was called and has returned or raised
LlmLeft == ~use_mock_llm /\ pipe_pc \in {"llm_except", "respond", "done"}
KnownLlmProviders == {"openai", "anthropic"}

\* C13: paraphrase_xml puts no result in place of a failure: when it raises
\* there is an error and no result; an unknown provider and a missing API
\* key of the selected provider each raise with no remote call made; a
\* result comes only from the one remote call, and a failure of that call
\* leaves paraphrase_xml as an error, which POST /paraphrase answers 500.
C13_FailsWithoutSubstitute ==
    /\ pipe_pc = "llm_await" =>
        /\ llm_provider \in KnownLlmProviders \cap api_keys
        /\ llm_calls = <<llm_provider>>
        /\ llm_error = "" /\ paraphrased_xml = <<>>
    /\ LlmLeft =>
        /\ llm_error # "" => paraphrased_xml = <<>>
        /\ pipe_pc = "llm_except" => llm_error # ""
        /\ llm_provider \notin KnownLlmProviders =>
              llm_error = "unknown_provider" /\ llm_calls = <<>>
        /\ (llm_provider \in KnownLlmProviders /\ llm_provider \notin api_keys) =>
              llm_error \in {"missing_credential", "import_error"} /\ llm_calls = <<>>
        /\ llm_error \in {"unknown_provider", "missing_credential", "import_error"} =>
              llm_calls = <<>>
        /\ llm_error \in {"", "remote_failure"} => llm_calls = <<llm_provider>>
        /\ (pipe_pc = "done" /\ llm_error # "") =>
              resp.status = 500 /\ resp.message = llm_error

\* the selected provider has no API key: paraphrase_xml raised before any
\* remote call
C13_Witness ==
    /\ LlmLeft /\ pipe_pc = "llm_except"
    /\ llm_provider = "anthropic" /\ "anthropic" \notin api_keys
    /\ llm_error = "missing_credential"
    /\ llm_calls = <<>> /\ paraphrased_xml = <<>>

\* the request got as far as the paraphrase stage: always at POST /paraphrase,
\* at POST /ocr once raw_xml is made
ParaphraseStageRan ==
    \/ endpoint = "/paraphrase"
    \/ endpoint = "/ocr" /\ raw_xml # <<>>

\* C14: at the endpoints the paraphrased XML answered is mock_paraphrase of
\* the input XML whenever the mock flag is set, with no remote call made,
\* and whenever paraphrase_xml failed, the cause having been logged; a
\* failure of paraphrase_xml never becomes an error response.
C14_MockOnFailure ==
    (pipe_pc = "done" /\ ParaphraseStageRan /\ (use_mock_llm \/ llm_error # "")) =>
        /\ resp.status = 200
        /\ resp.paraphrased_xml = mock_paraphrase(raw_xml)
        /\ use_mock_llm => llm_calls = <<>>
        /\ llm_error # "" => pipe_log >= 1

(***************************************************************************)
(* Properties of process_ocr and paraphrase_xml, checked under Spec.       *)
(***************************************************************************)
\* the request to POST /ocr is answered and its OCR stage had returned
OcrAnswered == endpoint = "/ocr" /\ pipe_pc = "done" /\ ocr_pc = "returned"
\* the run is completed: it returned an OCRResponse
OcrCompleted == OcrAnswered /\ resp.status = 200
\* text_to_xml of the OCR text, that of the mock text being worked out once
MockXml == text_to_xml(mock_ocr)
StructuredOcrText == IF ocr_text = mock_ocr THEN MockXml ELSE text_to_xml(ocr_text)

\* C12: a completed run of /ocr returns success=false with raw_text, raw_xml
\* and paraphrased_xml empty exactly when the OCR text is empty, and an
\* empty OCR text always ends so; every other completed run, fallback to
\* the mock generator included, returns success=true with the OCR text,
\* raw_xml = text_to_xml(raw_text) and ocr_provider the label the OCR stage
\* returned. A run whose OCR stage returned is not completed only when the
\* construction of the result was refused for a paraphrase that is None.
C12_EmptyTextResult ==
    /\ (OcrAnswered /\ ocr_text = <<>>) => OcrCompleted
    /\ (OcrAnswered /\ ~OcrCompleted) =>
          /\ resp.status = 500
          /\ paraphrased_xml = None
          /\ llm_calls = <<"openai">> /\ llm_error = ""
    /\ OcrCompleted =>
          /\ resp.success <=> ocr_text # <<>>
          /\ resp.ocr_provider = ocr_label
          /\ IF ocr_text = <<>>
             THEN /\ resp.raw_text = <<>>
                  /\ resp.raw_xml = <<>>
                  /\ resp.paraphrased_xml = <<>>
             ELSE /\ resp.raw_text = ocr_text
                  /\ resp.raw_xml = StructuredOcrText
                  /\ IsPrefix(XmlDecl, resp.raw_xml)
    /\ (endpoint = "/ocr" /\ resp.status = 200) => OcrAnswered

\* a strategy answered with no text and the request was answered
\* success=false
C12_Witness ==
    /\ OcrAnswered
    /\ ocr_text = <<>>
    /\ ocr_label \notin {"mock", "mock (fallback)"}
    /\ resp.status = 200 /\ ~resp.success
    /\ resp.message = "No text detected in image"

\* the provider strategies of the dispatcher
Strategies ==
    {"ocr_with_deepseek_local", "ocr_with_deepseek_vllm", "ocr_with_clarifai",
     "ocr_with_tesseract"}
StrategyCalls == {i \in DOMAIN ocr_calls : ocr_calls[i] \in Strategies}

\* C16: no retries. One call of extract_text_from_image invokes at most one
\* provider strategy, at most once, and the step after a failure is the mock
\* fallback; one call of paraphrase_xml makes at most one remote call, and
\* when that call fails paraphrase_xml raises that failure with no further
\* call.
C16_NoRetries ==
    /\ [](/\ Cardinality(StrategyCalls) <= 1
          /\ ocr_error \in StrategyErrors =>
                Cardinality(StrategyCalls) = 1 /\ ocr_calls[1] \in Strategies
          /\ Len(llm_calls) <= 1
          /\ llm_error = "remote_failure" => llm_calls = <<llm_provider>>)
    /\ [][/\ ocr_pc = "except" =>
                /\ ocr_pc' = "returned"
                /\ ocr_calls' = Append(ocr_calls, "mock_ocr")
                /\ ocr_text' = mock_ocr
                /\ ocr_label' = "mock (fallback)"
          /\ (ocr_pc = "try" /\ ocr_calls' # ocr_calls /\ ocr_pc' = "except") =>
                ocr_error' \in StrategyErrors
          /\ (pipe_pc = "llm" /\ llm_calls' # llm_calls) =>
                /\ llm_calls' = Append(llm_calls, llm_provider)
                /\ pipe_pc' = "llm_await"
          /\ pipe_pc = "llm_await" =>
                /\ llm_calls' = llm_calls
                /\ \/ pipe_pc' = "respond" /\ llm_error' = ""
                   \/ pipe_pc' = "llm_except" /\ llm_error' = "remote_failure"
          /\ pipe_pc # "llm" => llm_calls' = llm_calls
         ]_vars

\* C16 witness: the one strategy call failed and the mock text was returned,
\* then the one remote paraphrase call failed
C16_Witness ==
    /\ endpoint = "/ocr" /\ pipe_pc = "done" /\ resp.status = 200
    /\ ocr_calls = <<"ocr_with_deepseek_vllm", "mock_ocr">>
    /\ ocr_error = "transport"
    /\ ocr_label = "mock (fallback)"
    /\ llm_calls = <<"openai">>
    /\ llm_error = "remote_failure"

(***************************************************************************)
(* Properties of mock_paraphrase after text_to_xml, checked under          *)
(* SpecMockPipeline.                                                       *)
(***************************************************************************)
\* an output line of text_to_xml with the marker at the start of the content
\* of a header, a paragraph, or a field whose value is not empty
MarkedLine(part) ==
    LET kind == Kind(part)
        pre == IF kind = "header" THEN HeaderPre
               ELSE IF kind = "paragraph" THEN ParaPre
               ELSE FieldPre \o AttrValue(part, FieldPre) \o AttrEnd
    IN  IF kind \in {"header", "paragraph"}
           \/ (kind = "field" /\ part # pre \o FieldPost)
        THEN pre \o ParaphraseMarker \o SubSeq(part, Len(pre) + 1, Len(part))
        ELSE part

\* the structured document of the request, line by line
RawLines == split(raw_xml, NL)
ParaphrasedLines == split(paraphrased_xml, NL)

\* the mock paraphraser has rewritten the structured document
MockPipelineDone ==
    /\ endpoint = "/ocr" /\ use_mock_llm /\ pipe_pc \in {"respond", "done"}
    /\ ocr_text # <<>>

\* C19: mock_paraphrase(text_to_xml(t)) is text_to_xml(t) with the marker
\* at the start of the content of every header element, every paragraph
\* element and every field element whose value is not empty; the
\* declaration, the document tags, the section tags, the name attributes
\* and the fields with an empty value are unchanged, and the elements keep
\* their number and order.
C19_MarkerPerTextElement ==
    MockPipelineDone =>
        LET rl == RawLines
            pl == ParaphrasedLines
            ml == [p \in 1..Len(rl) |-> MarkedLine(rl[p])]
        IN  /\ Len(pl) = Len(rl)
            /\ pl = ml
            /\ \A p \in 1..Len(rl) :
                  /\ Kind(pl[p]) = Kind(rl[p])
                  /\ Kind(rl[p]) \in {"section", "section_end", "other"} =>
                        pl[p] = rl[p]
            /\ Len(paraphrased_xml) = Len(raw_xml) + Len(ParaphraseMarker) *
                  Cardinality({p \in 1..Len(rl) : ml[p] # rl[p]})
            /\ IsPrefix(XmlDecl \o <<NL>> \o DocOpen, paraphrased_xml)

\* C19 witness: a document with a header, a field without value, a field
\* with a value and a section with a paragraph
C19_Witness ==
    /\ MockPipelineDone /\ pipe_pc = "done" /\ resp.success
    /\ LET rl == RawLines
           pl == ParaphrasedLines
       IN  /\ \E p \in 1..Len(rl) : Kind(rl[p]) = "field" /\ pl[p] = rl[p]
           /\ \E p \in 1..Len(rl) : Kind(rl[p]) = "section" /\ pl[p] = rl[p]
           /\ \E p \in 1..Len(rl) : Kind(rl[p]) = "paragraph" /\ pl[p] # rl[p]
    /\ resp.paraphrased_xml = paraphrased_xml

====
